---------------------------- MODULE Spec2Model ----------------------------
(***************************************************************************)
(* Voidwind: the simulation layer (src/src/game.rs, src/src/components.rs). *)
(*                                                                         *)
(* The specifications that share this module:                              *)
(*   SpecDamage  ShipState::damage and the Team relations as pure          *)
(*               functions, applied to inputs drawn from bounded sets;     *)
(*   SpecShips   the resources of two ships through Game::logic: the       *)
(*               trade screen, then the ship passes of Map::logic;         *)
(*   Spec        the entity life cycle of Map::logic, pass by pass;        *)
(*   SpecAStar   AStarContext::solve, one pop of the open set per step;    *)
(*   SpecAStarCost  the same with a cost_fn that is not zero everywhere;   *)
(*   SpecEconomy update_economy on the f32 array of Map::economy;          *)
(*   SpecLevel   ShipState::compute_level as a pure function;              *)
(*   SpecItems   the affixes, Weapon::stats and generate_weapon;           *)
(*   SpecAI      the AI state and want_attack of the ships through the     *)
(*               passes of Map::logic;                                     *)
(*   SpecFire    one weapon through the equipment screen and the           *)
(*               equipment pass: readiness and time_to_fire;               *)
(*   SpecHurt    the Hurt effect on one ship: damage, AI, items and the    *)
(*               experience of the ship that fired;                        *)
(*   SpecPause   AIState::Pause of a ship the player asks to dock with;    *)
(*   SpecContact the relaxation passes and the contact effects they        *)
(*               collect.                                                  *)
(*                                                                         *)
(* Fixed-point units replace f32: armor and weapon damage are whole        *)
(* points, hull, infirmary and bleed-through are tenths of a point, sails  *)
(* are halves of a point, so that every product the code forms is exact.   *)
(* SpecEconomy and SpecItems keep f32 as it is: a value is [m, e] with a   *)
(* 24 bit m, m * 2^e, and every operation rounds to nearest even.          *)
(***************************************************************************)
EXTENDS Integers, Sequences, FiniteSets, TLC

VARIABLES
    d_pc,      \* SpecDamage: "ready" | "done" | "panic"
    d_ship,    \* the ShipState the call mutates
    d_pre,     \* the ShipState before the call
    d_dmg,     \* the Damage payload of the call
    d_dir,     \* the impact direction of the call
    d_rnd,     \* the random outcomes the call drew
    d_report,  \* the DamageReport the call returned
    d_rot,     \* Position::dir of the ship that is hit, in units of PI/4
    s_pc,      \* SpecShips: "ui" (between calls) | "contact" (in Map::logic)
    s_hits,    \* Hurt effects applied so far in this tick's contact pass
    s_ships,   \* ShipState of each ship
    s_player,  \* Map::player
    s_dock,    \* Map::dock_entity (0 is None)
    s_screen,  \* Game::equipment_screen: "none" | "open"
    s_switch,  \* EquipmentScreen::switch_ships is Some
    s_recruit, \* EquipmentScreen::recruit is Some
    w_pc,      \* Spec: the pass of Map::logic that runs next
    w_world,   \* the entities hecs::World contains
    w_next,    \* the id the next spawn returns
    w_ent,     \* kind and Solid.parent of every id spawned so far
    w_ships,   \* ShipState of the ships
    w_ai,      \* the ships that have an AI component
    w_way,     \* Target.waypoints of the ships, as their markers (0 is None)
    w_to_die,  \* to_die of the running call (after it: as it was at its end)
    w_far,     \* the entities cell streaming found out of range in this call
    w_start,   \* the World when the call began
    w_before,  \* the World when its despawn loop began
    w_count,   \* World::despawn calls of the call, per id
    w_error,   \* the call returned an Err
    w_pairs,   \* colliding_pairs of the call
    w_effects, \* the (id, other_id) of its on_contact_effects
    w_lost,    \* the ships whose crew reached 0 with hull > 0 in the call
    w_held,    \* the markers their waypoints held at that moment
    w_premove, \* Target.waypoints as the target movement pass found them
    w_reached, \* the ships that pass found at their first waypoint
    a_pc,      \* SpecAStar: "idle" | "search" | "done" | "panic" | "loop"
    a_from,    \* the arguments of the running solve call
    a_to,
    a_solid,   \* the cells for which is_solid is true
    a_cost_fn, \* the cost_fn of the call, by the index of the cell
    a_least,   \* the least cost of a walk from a_from to a_to, or NoPath
    a_open,    \* AStarContext::open_set
    a_came_from, \* AStarContext::came_from
    a_cost,    \* AStarContext::cost
    a_best_score, \* best_score_so_far, as its square
    a_best_idx, \* best_idx_so_far
    a_path,    \* the Vec the call returned
    a_reused,  \* the context had served an earlier call when this one began
    a_fresh,   \* what a call with these arguments on a new context can return
    e_economy, \* SpecEconomy: Map::economy, five f32 as [m, e] = m * 2^e
    e_pre,     \* the array the last update_economy call was given
    e_idx,     \* the index that call drew
    e_up,      \* the direction that call drew: TRUE is 1., FALSE is -1.
    e_ticks,   \* the economy ticks of Map::logic so far
    l_exp,     \* SpecLevel: the experience of two ships
    l_level,   \* the levels compute_level gave them
    i_pc,      \* SpecItems: "idle" | "generated" | "stats" | "applied"
    i_draw,    \* level and the counts generate_weapon drew
    i_item,    \* the Weapon it returned
    i_stats,   \* the stats the last call computed
    i_trace,   \* the affixes Weapon::stats applied, in order
    i_affix,   \* the affix a single apply call was made on
    i_base,    \* the stats that call was given
    i_prev,    \* counts and rarity of the weapon generated the call before
    n_pc,      \* SpecAI: the pass of Map::logic that runs next
    n_world,   \* the ships hecs::World contains
    n_ss,      \* ShipState of each ship: its team, and is_active()
    n_ai,      \* AI::state of each ship ("None": no AI component)
    n_want,    \* Equipment::want_attack of each ship
    n_way,     \* the number of waypoints of its Target
    n_dock,    \* Map::dock_entity (0 is None)
    n_shots,   \* the projectiles in flight: Solid.parent and Damage.team
    n_dying,   \* the projectiles whose Die effect ran in this call
    f_pc,      \* SpecFire: the pass that runs next, "ui" between two calls
    f_active,  \* ShipState::is_active of the ship
    f_neutral, \* its team is Neutral
    f_want,    \* Equipment::want_attack
    f_slot,    \* where its weapon sits: "weapon" | "inventory" (is_inventory)
    f_ready,   \* Weapon::readiness, in steps of 1 / Full
    f_ttf,     \* Weapon::time_to_fire: None, or the calls still to wait
    f_shot,    \* the last equipment pass spawned a projectile: the weapon then
    h_pc,      \* SpecHurt: "contact" | "death" | "panic"
    h_ss,      \* ShipState of the ship that is hit
    h_stats,   \* its ShipStats: level and exp_bonus
    h_ai,      \* its AI component (NoAI when it has none)
    h_items,   \* Equipment::slots of the ship: the kind of the item of each
    h_parent,  \* the ship Solid::parent of the projectiles names
    h_hits,    \* Hurt effects applied so far in this call
    h_dmg,     \* the Damage of the last Hurt effect
    h_report,  \* the DamageReport of the last Hurt effect
    h_pre,     \* the ship, its AI, its items and the parent before that effect
    p_pc,      \* SpecPause: the pass of Map::logic that runs next
    p_ai,      \* the AI component of the ship the player targets
    p_wait,    \* the AI passes still to come with time <= time_to_unpause
    p_way,     \* Target.waypoints of the ship, by what pushed each
    p_dock,    \* Map::dock_entity is the ship
    p_active,  \* ShipState::is_active of the ship
    c_pc,      \* SpecContact: the pass of Map::logic that runs next
    c_world,   \* the projectiles hecs::World contains
    c_next,    \* the id the next make_projectile returns
    c_touch,   \* colliding_pairs of the call, and the passes each touched on
    c_tick,    \* Hurt effects applied in the call, per projectile and ship
    c_life,    \* Hurt effects applied so far, per projectile and ship
    c_to_die,  \* to_die of the call
    m_pc,      \* SpecCells: the pass of Map::logic that runs next
    m_cells,   \* Map::cells, the centre of each Cell in the order of the Vec
    m_world,   \* the entities with a Position that are followed
    m_pos,     \* Position::pos of each, as <<x, z>>
    m_player,  \* Map::player
    m_player_pos, \* Map::player_pos
    m_to_die,  \* to_die of the running call
    m_next,    \* the next entity that is followed
    m_before,  \* the centres in Map::cells as the last cell changes found it
    m_cell,    \* player_cell of the last cell changes
    m_new,     \* new_cell_centers of the last cell changes, recentred
    t_tick,    \* SpecExpiry: GameState::tick
    t_paused,  \* GameState::paused
    t_world,   \* the entities with a TimeToDie that exist
    t_ent,     \* kind, tick of the spawn and deadline of each, in ticks
    t_next,    \* the next entity
    t_last,    \* the tick of the last call of Map::logic (-1: none yet)
    t_gone,    \* the entities the time to die pass despawned, with the tick
    u_pc,      \* SpecHud: "input" | "logic", the handler that ran last
    u_on,      \* Button::on of the 7 HUD buttons
    u_toggled, \* HUD::toggled
    u_boost,   \* ShipState::repair_boost of the two ships
    u_player,  \* Map::player
    u_clicks,  \* the clicks on HUD buttons so far
    u_stamp,   \* the click that last switched each button on, 0 if none
    u_dropped, \* the buttons the last HUD::logic call switched off
    r_pc,      \* SpecLoop: "top" | "wait", the place in the main loop
    r_draw,    \* draw
    r_count,   \* logics_without_draw
    r_queue,   \* the events waiting in the queue
    r_tick,    \* GameState::tick
    r_paused,  \* GameState::paused
    r_screen,  \* cur_screen: "Menu" | "Game"
    r_logics,  \* the Game::logic calls since the last render
    r_skipped, \* the event handled last was a timer tick that was skipped
    k_last,    \* SpecDock: "none" | "input" | "other", what ran last
    k_team,    \* ShipState::team of the ships
    k_hull,    \* is_structurally_sound of the ships
    k_crew,    \* has_crew of the ships
    k_player,  \* Map::player
    k_dock,    \* Map::dock_entity, 0 for None
    k_target,  \* Map::target_entity, 0 for None
    k_way,     \* the markers of the waypoints of the ships
    k_to_die,  \* the to_die queue of the last Map::logic call
    k_req,     \* what the last Map::logic call was given
    b_money,   \* SpecTrade: Map::money
    b_team,    \* ShipState::team of the dock_entity
    b_slots,   \* the items of the slots, [1] the player, [0] the partner
    b_dragged, \* EquipmentScreen::dragged_item
    b_down,    \* EquipmentScreen::mouse_button_down
    b_grab_attempted, \* EquipmentScreen::grab_attempted
    b_paid,    \* what was paid when the dragged item was grabbed
    b_ev,      \* the branch the last EquipmentScreen::logic call took
    b_msg      \* that call pushed "Not enough money!"

dvars == <<d_pc, d_ship, d_pre, d_dmg, d_dir, d_rnd, d_report, d_rot>>

svars == <<s_pc, s_hits, s_ships, s_player, s_dock, s_screen,
           s_switch, s_recruit>>

wvars == <<w_pc, w_world, w_next, w_ent, w_ships, w_ai, w_way, w_to_die,
           w_far, w_start, w_before, w_count, w_error, w_pairs, w_effects, w_lost,
           w_held, w_premove, w_reached>>

avars == <<a_pc, a_from, a_to, a_solid, a_cost_fn, a_least, a_open, a_came_from, a_cost,
           a_best_score, a_best_idx, a_path, a_reused,
           a_fresh>>

evars == <<e_economy, e_pre, e_idx, e_up, e_ticks>>

lvars == <<l_exp, l_level>>

ivars == <<i_pc, i_draw, i_item, i_stats, i_trace, i_affix, i_base, i_prev>>

nvars == <<n_pc, n_world, n_ss, n_ai, n_want, n_way, n_dock, n_shots, n_dying>>

fvars == <<f_pc, f_active, f_neutral, f_want, f_slot, f_ready, f_ttf, f_shot>>

hvars == <<h_pc, h_ss, h_stats, h_ai, h_items, h_parent, h_hits, h_dmg,
           h_report, h_pre>>

pvars == <<p_pc, p_ai, p_wait, p_way, p_dock, p_active>>

cvars == <<c_pc, c_world, c_next, c_touch, c_tick, c_life, c_to_die>>

mvars == <<m_pc, m_cells, m_world, m_pos, m_player, m_player_pos, m_to_die, m_next, m_before, m_cell, m_new>>

tvars == <<t_tick, t_paused, t_world, t_ent, t_next, t_last, t_gone>>

uvars == <<u_pc, u_on, u_toggled, u_boost, u_player, u_clicks, u_stamp, u_dropped>>

rvars == <<r_pc, r_draw, r_count, r_queue, r_tick, r_paused, r_screen, r_logics, r_skipped>>

kvars == <<k_last, k_team, k_hull, k_crew, k_player, k_dock, k_target, k_way, k_to_die, k_req>>

bvars == <<b_money, b_team, b_slots, b_dragged, b_down, b_grab_attempted, b_paid, b_ev, b_msg>>

vars == <<dvars, svars, wvars, avars, evars, lvars, ivars, nvars, fvars, hvars, pvars, cvars, mvars, tvars, uvars, rvars, kvars, bvars>>

\* What the actions of one specification leave alone
notD == <<svars, wvars, avars, evars, lvars, ivars, nvars, fvars, hvars, pvars, cvars, mvars, tvars, uvars, rvars, kvars, bvars>>

notS == <<dvars, wvars, avars, evars, lvars, ivars, nvars, fvars, hvars, pvars, cvars, mvars, tvars, uvars, rvars, kvars, bvars>>

notW == <<dvars, svars, avars, evars, lvars, ivars, nvars, fvars, hvars, pvars, cvars, mvars, tvars, uvars, rvars, kvars, bvars>>

notA == <<dvars, svars, wvars, evars, lvars, ivars, nvars, fvars, hvars, pvars, cvars, mvars, tvars, uvars, rvars, kvars, bvars>>

notE == <<dvars, svars, wvars, avars, lvars, ivars, nvars, fvars, hvars, pvars, cvars, mvars, tvars, uvars, rvars, kvars, bvars>>

notL == <<dvars, svars, wvars, avars, evars, ivars, nvars, fvars, hvars, pvars, cvars, mvars, tvars, uvars, rvars, kvars, bvars>>

notI == <<dvars, svars, wvars, avars, evars, lvars, nvars, fvars, hvars, pvars, cvars, mvars, tvars, uvars, rvars, kvars, bvars>>

notN == <<dvars, svars, wvars, avars, evars, lvars, ivars, fvars, hvars, pvars, cvars, mvars, tvars, uvars, rvars, kvars, bvars>>

notF == <<dvars, svars, wvars, avars, evars, lvars, ivars, nvars, hvars, pvars, cvars, mvars, tvars, uvars, rvars, kvars, bvars>>

notH == <<dvars, svars, wvars, avars, evars, lvars, ivars, nvars, fvars, pvars, cvars, mvars, tvars, uvars, rvars, kvars, bvars>>

notP == <<dvars, svars, wvars, avars, evars, lvars, ivars, nvars, fvars, hvars, cvars, mvars, tvars, uvars, rvars, kvars, bvars>>

notC == <<dvars, svars, wvars, avars, evars, lvars, ivars, nvars, fvars, hvars, pvars, mvars, tvars, uvars, rvars, kvars, bvars>>

notM == <<dvars, svars, wvars, avars, evars, lvars, ivars, nvars, fvars, hvars, pvars, cvars, tvars, uvars, rvars, kvars, bvars>>

notT == <<dvars, svars, wvars, avars, evars, lvars, ivars, nvars, fvars, hvars, pvars, cvars, mvars, uvars, rvars, kvars, bvars>>

notU == <<dvars, svars, wvars, avars, evars, lvars, ivars, nvars, fvars, hvars, pvars, cvars, mvars, tvars, rvars, kvars, bvars>>

notR == <<dvars, svars, wvars, avars, evars, lvars, ivars, nvars, fvars, hvars, pvars, cvars, mvars, tvars, uvars, kvars, bvars>>

notK == <<dvars, svars, wvars, avars, evars, lvars, ivars, nvars, fvars, hvars, pvars, cvars, mvars, tvars, uvars, rvars, bvars>>

notB == <<dvars, svars, wvars, avars, evars, lvars, ivars, nvars, fvars, hvars, pvars, cvars, mvars, tvars, uvars, rvars, kvars>>

----------------------------------------------------------------------------
(* Small helpers *)

Max(a, b) == IF a >= b THEN a ELSE b

Min(a, b) == IF a <= b THEN a ELSE b

\* ceil(a / b) for a >= 0, b > 0
CeilDiv(a, b) == (a + b - 1) \div b

----------------------------------------------------------------------------
(* components.rs: Team *)

Teams == {"English", "French", "Pirate", "Neutral"}

\* A slip: only the caller's side is tested for Neutral
is_enemyM7(self, other) ==
    IF self = "Neutral" THEN FALSE ELSE self # other

is_enemy(self, other) ==
    IF self = "Neutral" \/ other = "Neutral" THEN FALSE ELSE self # other

trade_with(self, other) ==
    IF self = "Neutral" \/ other = "Neutral" THEN FALSE ELSE self = other

dock_with(self, other) ==
    IF self = "Neutral" \/ other = "Neutral" THEN TRUE ELSE self = other

\* A slip: a Neutral ship cannot be damaged
can_damageM26(self, other) == self # other /\ other # "Neutral"

can_damage(self, other) == self # other

----------------------------------------------------------------------------
(* components.rs: CollideKind *)

CollideKinds == {"Big", "Small"}

collides_with(self, other) ==
    CASE self = "Big" /\ other = "Big" -> TRUE
      [] self = "Big" /\ other = "Small" -> TRUE
      [] self = "Small" /\ other = "Big" -> TRUE
      [] self = "Small" /\ other = "Small" -> FALSE

----------------------------------------------------------------------------
(* components.rs: ShipStats, ShipState *)

\* hull and infirmary are kept in tenths: the code's 0.1 * armor / base_damage
HullScale == 10

\* sails are kept in halves: the code's sail_damage * base_damage / 2.
SailScale == 2

Segments == 0..3

\* ShipState::new: a ship starts at its ceilings, with no wounded
ShipStateNew(stats, team, level) ==
    [hull |-> stats.hull, crew |-> stats.crew, wounded |-> 0,
     experience |-> level * level * level, level |-> level, team |-> team,
     sails |-> stats.sails, infirmary |-> stats.infirmary,
     armor |-> stats.armor]

is_structurally_sound(ss) == ss.hull > 0

has_crew(ss) == ss.crew > 0

is_active(ss) == is_structurally_sound(ss) /\ has_crew(ss)

----------------------------------------------------------------------------
(* components.rs: ShipState::damage *)

\* Impact directions: dir is atan2(dir.y, -dir.x) in units of PI/4, from -4
\* (-PI, reached with dir.y = -0.0) to 4 (PI, reached with dir.y = +0.0 and
\* dir.x > 0); NaNDir is the normalised zero vector (both positions equal).
NaNDir == 9

Dirs == (-4..4) \cup {NaNDir}

\* ((4. * (PI + atan2) / (2. * PI)) - 0.5).round() as usize: f32::round
\* rounds half away from zero, the cast saturates a negative value and NaN
\* to 0.  With theta = dir * PI/4 the rounded term is (dir + 3) / 2.
armor_segment(dir) ==
    IF dir = NaNDir THEN 0
    ELSE LET t2 == dir + 3
             r == IF t2 >= 0 THEN (t2 + 1) \div 2 ELSE 0 - ((1 - t2) \div 2)
         IN IF r < 0 THEN 0 ELSE r

NoReport == [damaged |-> FALSE, item_destroy_chance |-> 0, crit |-> FALSE]

\* A slip: the hull is not floored at 0
DamageHullM1(ss, dmg, seg, base, rnd) ==
    LET arm == Max(ss.armor[seg + 1] - dmg.armor_damage * base, 0)
        bleed == base * HullScale - Min(arm, base * HullScale)
        s1 == [ss EXCEPT !.armor[seg + 1] = arm, !.hull = ss.hull - bleed]
        crew_damage == CeilDiv(dmg.crew_damage * bleed, 2 * HullScale)
        crew1 == Max(s1.crew - crew_damage, 0)
        lost == s1.crew - crew1
        s2 == CASE rnd.internal = 0 -> s1
                [] rnd.internal = 1 ->
                     [s1 EXCEPT !.crew = crew1,
                                !.wounded = s1.wounded + Min(rnd.wounds, lost)]
                [] rnd.internal = 2 ->
                     [s1 EXCEPT !.infirmary = Max(s1.infirmary - bleed, 0)]
    IN [ship |-> s2, idc |-> bleed * dmg.item_chance]

\* The hull branch of damage (components.rs 1515-1553), for a valid segment.
\* item_destroy_chance is kept as bleed_through * item_chance (tenths), the
\* code's 0.01 * bleed_through_frac * item_chance times 1000 * base_damage.
DamageHull(ss, dmg, seg, base, rnd) ==
    LET arm == Max(ss.armor[seg + 1] - dmg.armor_damage * base, 0)
        \* base * (1 - min(0.1 * arm / base, 1)), in tenths
        bleed == base * HullScale - Min(arm, base * HullScale)
        s1 == [ss EXCEPT !.armor[seg + 1] = arm,
                         !.hull = Max(ss.hull - bleed, 0)]
        crew_damage == CeilDiv(dmg.crew_damage * bleed, 2 * HullScale)
        crew1 == Max(s1.crew - crew_damage, 0)
        lost == s1.crew - crew1
        s2 == CASE rnd.internal = 0 -> s1
                [] rnd.internal = 1 ->
                     [s1 EXCEPT !.crew = crew1,
                                !.wounded = s1.wounded + Min(rnd.wounds, lost)]
                [] rnd.internal = 2 ->
                     [s1 EXCEPT !.infirmary = Max(s1.infirmary - bleed, 0)]
    IN [ship |-> s2, idc |-> bleed * dmg.item_chance]

\* A slip: a shot routed to the sails also takes its base damage off the hull
damageM5(ss, dmg, dir, rnd) ==
    IF can_damage(dmg.team, ss.team)
    THEN LET base == IF rnd.crit
                     THEN dmg.damage * (1 + dmg.critical_multiplier)
                     ELSE dmg.damage
             seg == armor_segment(dir)
         IN IF rnd.sail
            THEN [ship |-> [ss EXCEPT !.sails =
                               Max(ss.sails - dmg.sail_damage * base, 0),
                               !.hull = Max(ss.hull - base * HullScale, 0)],
                  report |-> [damaged |-> TRUE, item_destroy_chance |-> 0,
                              crit |-> rnd.crit],
                  panic |-> FALSE]
            ELSE IF seg \notin Segments
            THEN [ship |-> ss, report |-> NoReport, panic |-> TRUE]
            ELSE LET h == DamageHull(ss, dmg, seg, base, rnd)
                 IN [ship |-> h.ship,
                     report |-> [damaged |-> TRUE,
                                 item_destroy_chance |-> h.idc,
                                 crit |-> rnd.crit],
                     panic |-> FALSE]
    ELSE [ship |-> ss, report |-> NoReport, panic |-> FALSE]

\* A slip: the team test is missing
damageM6(ss, dmg, dir, rnd) ==
    LET base == IF rnd.crit THEN dmg.damage * (1 + dmg.critical_multiplier)
                ELSE dmg.damage
        seg == armor_segment(dir)
    IN IF rnd.sail
       THEN [ship |-> [ss EXCEPT !.sails =
                          Max(ss.sails - dmg.sail_damage * base, 0)],
             report |-> [damaged |-> TRUE, item_destroy_chance |-> 0,
                         crit |-> rnd.crit],
             panic |-> FALSE]
       ELSE IF seg \notin Segments
       THEN [ship |-> ss, report |-> NoReport, panic |-> TRUE]
       ELSE LET h == DamageHull(ss, dmg, seg, base, rnd)
            IN [ship |-> h.ship,
                report |-> [damaged |-> TRUE, item_destroy_chance |-> h.idc,
                            crit |-> rnd.crit],
                panic |-> FALSE]

\* rnd: crit and sail are the two gen_bool draws, internal the WeightedIndex
\* draw, wounds the number of gen_bool(0.9) successes (capped by the loop's
\* length).  A segment index outside armor[0..3] is the index panic.
damage(ss, dmg, dir, rnd) ==
    IF can_damage(dmg.team, ss.team)
    THEN LET base == IF rnd.crit
                     THEN dmg.damage * (1 + dmg.critical_multiplier)
                     ELSE dmg.damage
             seg == armor_segment(dir)
         IN IF rnd.sail
            THEN [ship |-> [ss EXCEPT !.sails =
                               Max(ss.sails - dmg.sail_damage * base, 0)],
                  report |-> [damaged |-> TRUE, item_destroy_chance |-> 0,
                              crit |-> rnd.crit],
                  panic |-> FALSE]
            ELSE IF seg \notin Segments
            THEN [ship |-> ss, report |-> NoReport, panic |-> TRUE]
            ELSE LET h == DamageHull(ss, dmg, seg, base, rnd)
                 IN [ship |-> h.ship,
                     report |-> [damaged |-> TRUE,
                                 item_destroy_chance |-> h.idc,
                                 crit |-> rnd.crit],
                     panic |-> FALSE]
    ELSE [ship |-> ss, report |-> NoReport, panic |-> FALSE]

----------------------------------------------------------------------------
(* SpecShips: two ships through Game::logic: trade screen and ship passes *)

Ships == {1, 2}

Other(i) == 3 - i

\* Hurt effects applied in one contact pass
MaxHits == 1

\* The ship classes: ship 1 (the player's at the start) holds a crew of 3,
\* 2 hull, 0.5 sails, 1 infirmary and 1 armor a segment; ship 2 a crew of 2,
\* 2 hull, 1 infirmary, and neither sails nor armor.
SStats == <<[hull |-> 20, crew |-> 3, sails |-> 1, infirmary |-> 10,
             armor |-> <<1, 1, 1, 1>>],
            [hull |-> 20, crew |-> 2, sails |-> 0, infirmary |-> 10,
             armor |-> <<0, 0, 0, 0>>]>>

\* The shots that hit: a weak shot of a Pirate ship, from abeam
SPayloads == [team : {"Pirate"}, damage : {1},
              critical_multiplier : {1}, armor_damage : {1},
              sail_damage : {1}, crew_damage : {1}, item_chance : {1}]

SDirs == {1}

\* critical_multiplier is 1: the critical roll changes nothing
SRnds == {r \in [crit : {FALSE}, sail : BOOLEAN, internal : 0..2,
                 wounds : 0..1] :
            /\ r.internal # 1 => r.wounds = 0
            /\ r.sail => r.internal = 0}

\* components.rs: level_experience
level_experience(level) == level * level * level

\* The loop with a strict comparison
RECURSIVE compute_level_fromM17(_, _)
compute_level_fromM17(level, experience) ==
    IF level_experience(level + 1) < experience
    THEN compute_level_fromM17(level + 1, experience)
    ELSE level

\* components.rs: ShipState::compute_level, the loop from `level`
RECURSIVE compute_level_from(_, _)
compute_level_from(level, experience) ==
    IF level_experience(level + 1) <= experience
    THEN compute_level_from(level + 1, experience)
    ELSE level

compute_level(ss) == [ss EXCEPT !.level = compute_level_from(1, ss.experience)]

\* game.rs 2376-2384: the Binomial's n, (effective_crew.sqrt() * 0.5).ceil()
\* with effective_crew = crew * sqrt(level): the least n with
\* 16 n^4 >= crew^2 * level
RECURSIVE repair_trials_from(_, _, _)
repair_trials_from(n, crew, level) ==
    IF 16 * n * n * n * n >= crew * crew * level THEN n
    ELSE repair_trials_from(n + 1, crew, level)

repair_trials(ss) == repair_trials_from(0, Max(ss.crew, 0), ss.level)

\* game.rs 2386-2394: the repair weights (the x5 of repair_boost and the x10
\* of the hull change no weight's sign)
repair_parts(ss, stats) ==
    <<stats.armor[1] - ss.armor[1], stats.armor[2] - ss.armor[2],
      stats.armor[3] - ss.armor[3], stats.armor[4] - ss.armor[4],
      10 * (stats.hull - ss.hull), stats.infirmary - ss.infirmary,
      stats.sails - ss.sails>>

\* WeightedIndex::new is Ok when no weight is negative and one is positive;
\* sample draws an index of positive weight
repair_choices(ss, stats) ==
    LET parts == repair_parts(ss, stats)
    IN IF \E i \in 1..7 : parts[i] < 0 THEN {}
       ELSE {i \in 1..7 : parts[i] > 0}

\* A slip: the repaired hull is not capped at the ceiling
repair_partM2(ss, stats, part, n) ==
    CASE part \in 1..4 ->
           [ss EXCEPT !.armor[part] = Min(ss.armor[part] + n, stats.armor[part])]
      [] part = 5 -> [ss EXCEPT !.hull = ss.hull + n * HullScale]
      [] part = 6 ->
           [ss EXCEPT !.infirmary =
               Min(ss.infirmary + n * HullScale, stats.infirmary)]
      [] part = 7 ->
           [ss EXCEPT !.sails = Min(ss.sails + n * SailScale, stats.sails)]

\* game.rs 2399-2449: part is to_repair + 1, n is num_repaired (no officer
\* bonus: derived_stats is zero)
repair_part(ss, stats, part, n) ==
    CASE part \in 1..4 ->
           [ss EXCEPT !.armor[part] = Min(ss.armor[part] + n, stats.armor[part])]
      [] part = 5 ->
           [ss EXCEPT !.hull = Min(ss.hull + n * HullScale, stats.hull)]
      [] part = 6 ->
           [ss EXCEPT !.infirmary =
               Min(ss.infirmary + n * HullScale, stats.infirmary)]
      [] part = 7 ->
           [ss EXCEPT !.sails = Min(ss.sails + n * SailScale, stats.sails)]

\* game.rs 2453-2464: heal_prob is positive exactly when the infirmary is;
\* healed is the number of gen_bool successes over the wounded
heal_choices(ss) == IF ss.infirmary > 0 THEN 0..ss.wounded ELSE {0}

heal(ss, healed) ==
    [ss EXCEPT !.wounded = ss.wounded - healed, !.crew = ss.crew + healed]

\* A slip: only a sunk ship is handled
death_neededM4(ss) == ~is_structurally_sound(ss) /\ ss.team # "Neutral"

\* game.rs 3377: the ships the death pass acts on
death_needed(ss) == ~is_active(ss) /\ ss.team # "Neutral"

\* game.rs 3385-3387
death_handle(ss) ==
    IF death_needed(ss)
    THEN [ss EXCEPT !.team = "Neutral", !.crew = 0, !.wounded = 0]
    ELSE ss

\* game.rs 1382-1398: finish_trade dumps the player's overflow overboard
finish_trade_crew(ss, stats) ==
    LET overflow1 == ss.crew + ss.wounded - stats.crew
        w == IF overflow1 > 0 THEN ss.wounded - Min(overflow1, ss.wounded)
             ELSE ss.wounded
        overflow2 == ss.crew + w - stats.crew
        c == IF overflow2 > 0 THEN ss.crew - overflow2 ELSE ss.crew
    IN [ss EXCEPT !.wounded = w, !.crew = c]

finish_trade(ships, player) ==
    [ships EXCEPT ![player] = finish_trade_crew(ships[player], SStats[player])]

\* game.rs 1266-1281: crew, wounded, experience and team change sides
do_switch(ships, player, dock) ==
    [ships EXCEPT
       ![player] = [@ EXCEPT !.crew = ships[dock].crew,
                             !.wounded = ships[dock].wounded,
                             !.experience = ships[dock].experience,
                             !.team = ships[dock].team],
       ![dock] = [@ EXCEPT !.crew = ships[player].crew,
                           !.wounded = ships[player].wounded,
                           !.experience = ships[player].experience,
                           !.team = ships[player].team]]

\* game.rs 1301-1315: the three refusals (money is an input here)
recruit_allowed(ships, player, dock, enough_money) ==
    /\ ~(ships[dock].crew < (SStats[dock].crew * 2) \div 3)
    /\ enough_money
    /\ ~(ships[player].crew >= SStats[player].crew)

\* game.rs 1318-1326; the f32 quotient of new_experience is cut to a whole
\* number of points
do_recruit(ships, player, dock) ==
    LET player_count == ships[player].crew + ships[player].wounded
        new_experience ==
            (player_count * ships[player].experience + 1) \div (player_count + 1)
    IN [ships EXCEPT
          ![dock] = [@ EXCEPT !.crew = @ - 1],
          ![player] = compute_level([@ EXCEPT !.crew = @ + 1,
                                              !.experience = new_experience])]

\* The variables of SpecShips while another specification runs
SIdle ==
    /\ s_pc = "ui"
    /\ s_hits = 0
    /\ s_ships = [i \in Ships |-> ShipStateNew(SStats[i], "English", 1)]
    /\ s_player = 1
    /\ s_dock = 0
    /\ s_screen = "none"
    /\ s_switch = FALSE
    /\ s_recruit = FALSE

\* Map::new: the player sails an English ship of level 2; Cell::new: the
\* other ship, here English too, is of level 1
SInit ==
    /\ s_pc = "ui"
    /\ s_hits = 0
    /\ s_ships = [i \in Ships |->
                    IF i = 1 THEN ShipStateNew(SStats[1], "English", 2)
                    ELSE ShipStateNew(SStats[2], "English", 1)]
    /\ s_player = 1
    /\ s_dock = 0
    /\ s_screen = "none"
    /\ s_switch = FALSE
    /\ s_recruit = FALSE

\* A slip: the pass does not skip a ship that is not structurally sound
ship_state_outcomesM35(ss, stats) ==
    LET s1 == compute_level(ss)
        choices == repair_choices(s1, stats)
        repaired == IF choices = {} THEN {s1}
                    ELSE {repair_part(s1, stats, part, n) :
                            part \in choices, n \in 0..repair_trials(s1)}
    IN UNION {{heal(s2, healed) : healed \in heal_choices(s2)} :
                s2 \in repaired}

\* Map::logic, ship state simulation (game.rs 2357-2464) of one ship: the
\* outcomes of compute_level, the repair draw and the healing draws
ship_state_outcomes(ss, stats) ==
    IF ~is_structurally_sound(ss) THEN {ss}
    ELSE LET s1 == compute_level(ss)
             choices == repair_choices(s1, stats)
             repaired == IF choices = {} THEN {s1}
                         ELSE {repair_part(s1, stats, part, n) :
                                 part \in choices, n \in 0..repair_trials(s1)}
         IN UNION {{heal(s2, healed) : healed \in heal_choices(s2)} :
                     s2 \in repaired}

\* Game::input, Escape with the equipment screen open, or a decoded Move
\* while docked with the screen open: finish_trade and close
CloseTrade ==
    /\ s_pc = "ui"
    /\ UNCHANGED notS
    /\ s_screen = "open"
    /\ s_ships' = finish_trade(s_ships, s_player)
    /\ s_screen' = "none"
    /\ s_switch' = FALSE
    /\ s_recruit' = FALSE
    /\ s_dock' = 0
    /\ UNCHANGED <<s_pc, s_hits, s_player>>

\* Game::logic (game.rs 637-673 with EquipmentScreen::logic 993-1342) and
\* Map::logic through its ship state simulation pass.  want_inventory is the
\* Inventory action, press the button a mouse click switched on since the
\* last call, enough_money the outcome of the money test.
GameLogicBegin ==
    /\ s_pc = "ui"
    /\ UNCHANGED notS
    /\ \E want_inventory \in BOOLEAN, press \in {"none", "switch", "recruit"},
          enough_money \in BOOLEAN :
         LET closing == want_inventory /\ s_screen = "open"
             ships1 == IF closing THEN finish_trade(s_ships, s_player)
                       ELSE s_ships
             dock1 == IF closing THEN 0 ELSE s_dock
             fresh == closing \/ s_screen = "none"
             screen1 == IF closing THEN "none"
                        ELSE IF want_inventory \/ dock1 # 0 THEN "open"
                        ELSE s_screen
             had_switch == ~fresh /\ s_switch
             had_recruit == ~fresh /\ s_recruit
             make == screen1 = "open" /\ dock1 # 0 /\ ~had_switch /\ ~had_recruit
             switch1 == IF screen1 = "none" \/ dock1 = 0 THEN FALSE
                        ELSE IF make
                        THEN /\ ships1[dock1].hull > 0
                             /\ ships1[dock1].team # ships1[s_player].team
                        ELSE had_switch
             recruit1 == IF screen1 = "none" \/ dock1 = 0 THEN FALSE
                         ELSE IF make
                         THEN ships1[dock1].team = ships1[s_player].team
                         ELSE had_recruit
             switching == press = "switch" /\ had_switch /\ switch1
             recruiting == press = "recruit" /\ had_recruit /\ recruit1
             ships2 == IF switching THEN do_switch(ships1, s_player, dock1)
                       ELSE ships1
             ships3 == IF recruiting
                          /\ recruit_allowed(ships2, s_player, dock1, enough_money)
                       THEN do_recruit(ships2, s_player, dock1)
                       ELSE ships2
         IN /\ press = "switch" => had_switch
            /\ press = "recruit" => had_recruit
            /\ ~enough_money => press = "recruit"
            /\ \E a \in ship_state_outcomes(ships3[1], SStats[1]),
                  b \in ship_state_outcomes(ships3[2], SStats[2]) :
                 s_ships' = [i \in Ships |-> IF i = 1 THEN a ELSE b]
            /\ s_screen' = screen1
            /\ s_switch' = switch1
            /\ s_recruit' = recruit1
            /\ s_player' = IF switching THEN dock1 ELSE s_player
            /\ s_dock' = IF switching THEN s_player ELSE dock1
            /\ s_pc' = "contact"
            /\ s_hits' = 0

\* Map::logic, one Hurt contact effect (game.rs 2623-2674): a shot of a ship
\* outside the two hits ship i
ContactHurt ==
    /\ s_pc = "contact"
    /\ UNCHANGED notS
    /\ s_hits < MaxHits
    /\ \E i \in Ships, dmg \in SPayloads, dir \in SDirs, rnd \in SRnds :
         LET r == damage(s_ships[i], dmg, dir, rnd)
         IN /\ ~r.panic
            /\ s_ships' = [s_ships EXCEPT ![i] = r.ship]
    /\ s_hits' = s_hits + 1
    /\ UNCHANGED <<s_pc, s_player, s_dock, s_screen, s_switch, s_recruit>>

\* Map::logic from the player input pass (game.rs 2770-2924) to the ship
\* state death pass (game.rs 3371-3399), once the contact effects are
\* applied: a move order undocks, a dock request on the other ship docks when
\* the teams allow it and it is near; the passes between touch no ShipState
MapLogicEnd ==
    /\ s_pc = "contact"
    /\ UNCHANGED notS
    /\ \E order \in {"none", "move", "dock_near"} :
         LET player_alive == is_active(s_ships[s_player])
             target == Other(s_player)
         IN s_dock' =
              CASE order = "none" -> s_dock
                [] order = "move" -> IF player_alive THEN 0 ELSE s_dock
                [] order = "dock_near" ->
                     IF ~player_alive THEN s_dock
                     ELSE IF dock_with(s_ships[target].team,
                                       s_ships[s_player].team)
                     THEN target ELSE 0
    /\ s_ships' = [i \in Ships |-> death_handle(s_ships[i])]
    /\ s_pc' = "ui"
    /\ s_hits' = 0
    /\ UNCHANGED <<s_player, s_screen, s_switch, s_recruit>>

SNext ==
    \/ CloseTrade
    \/ GameLogicBegin
    \/ ContactHurt
    \/ MapLogicEnd

----------------------------------------------------------------------------
(* Spec: the entities of the World through the passes of Map::logic.  The
   player (ship 1) stays in its cell and selects no ship: no cell is added,
   dock_entity and target_entity stay None. *)

\* The ids hecs hands out, one after the other and never again
MaxIds == 5

Ids == 1..MaxIds

WShips == {1, 2}

WPlayer == 1

\* Entities cell streaming finds out of range in one call
MaxFar == 1

\* Pairs the spatial grid reports in one call
MaxPairs == 1

\* A ship of 2 hull and a crew of 1, without sails, infirmary or armor
WStats == [hull |-> 20, crew |-> 1, sails |-> 0, infirmary |-> 0,
           armor |-> <<0, 0, 0, 0>>]

WPayload(team) ==
    [team |-> team, damage |-> 1, critical_multiplier |-> 1,
     armor_damage |-> 1, sail_damage |-> 1, crew_damage |-> 1,
     item_chance |-> 1]

\* The shot goes to the hull and misses the internal systems or hits the crew
WRnds == [crit : {FALSE}, sail : {FALSE}, internal : 0..1, wounds : {0}]

NoEnt == [kind |-> "none", parent |-> 0, team |-> "Neutral"]

\* make_ship, make_target, make_projectile, make_muzzle_flash
ShipEnt == [kind |-> "ship", parent |-> 0, team |-> "Neutral"]

MarkerEnt == [kind |-> "marker", parent |-> 0, team |-> "Neutral"]

ProjectileEnt(parent, team) ==
    [kind |-> "projectile", parent |-> parent, team |-> team]

FlashEnt == [kind |-> "flash", parent |-> 0, team |-> "Neutral"]

\* The component sets the constructors give
has_solid(e) == e.kind \in {"ship", "projectile"}

solid_kind(e) == IF e.kind = "ship" THEN "Big" ELSE "Small"

has_time_to_die(e) == e.kind \in {"projectile", "flash"}

collides_with_water(e) == e.kind = "projectile"

has_contact_effect(e) == e.kind = "projectile"

Range(seq) == {seq[i] : i \in 1..Len(seq)}

RECURSIVE SetToSeq(_)
SetToSeq(S) ==
    IF S = {} THEN <<>>
    ELSE LET m == CHOOSE x \in S : \A y \in S : x <= y
         IN <<m>> \o SetToSeq(S \ {m})

\* components.rs 59-72: the markers of the waypoints, in order
RECURSIVE Markers(_)
Markers(way) ==
    IF way = <<>> THEN <<>>
    ELSE IF Head(way) # 0 THEN <<Head(way)>> \o Markers(Tail(way))
    ELSE Markers(Tail(way))

\* A slip: the waypoints go, their markers are not queued
Target_clearM3(way, to_die) == [way |-> <<>>, to_die |-> to_die]

\* components.rs Target::clear with |m| to_die.push(m)
Target_clear(way, to_die) == [way |-> <<>>, to_die |-> to_die \o Markers(way)]

\* A slip: the parent of the second entity is not tested
pair_filterM8(ent, a, b) ==
    /\ collides_with(solid_kind(ent[a]), solid_kind(ent[b]))
    /\ ent[a].parent # b

\* game.rs 2539-2547: the closure handed to all_pairs
pair_filter(ent, a, b) ==
    /\ collides_with(solid_kind(ent[a]), solid_kind(ent[b]))
    /\ ent[a].parent # b
    /\ ent[b].parent # a

\* SpatialGrid::all_pairs: of the pairs of entries that share a bucket and
\* whose boxes overlap (near), each once, those the predicate accepts
all_pairs(near, predicate) == {p \in near : predicate[p]}

\* A slip: the Die effect despawns at once
contact_dieM10(world, to_die, id) ==
    [world |-> world \ {id}, to_die |-> to_die]

\* game.rs 2622
contact_die(world, to_die, id) ==
    [world |-> world, to_die |-> Append(to_die, id)]

\* hecs World::despawn: Err(NoSuchEntity) for an id the World does not hold
despawn(world, id) ==
    IF id \in world THEN [ok |-> TRUE, world |-> world \ {id}]
    ELSE [ok |-> FALSE, world |-> world]

\* A slip: despawn is called without asking contains
remove_dead_stepM9(st, id) ==
    LET r == despawn(st.world, id)
    IN [world |-> r.world,
        count |-> [st.count EXCEPT ![id] = @ + 1],
        error |-> ~r.ok]

\* game.rs 3450-3456: the body of the loop; `?` returns the Err
remove_dead_step(st, id) ==
    IF id \in st.world
    THEN LET r == despawn(st.world, id)
         IN [world |-> r.world,
             count |-> [st.count EXCEPT ![id] = @ + 1],
             error |-> ~r.ok]
    ELSE st

\* game.rs 3450-3457: the loop over the sorted and deduplicated to_die
RECURSIVE remove_dead(_, _)
remove_dead(ids, st) ==
    IF ids = <<>> \/ st.error THEN st
    ELSE remove_dead(Tail(ids), remove_dead_step(st, Head(ids)))

\* game.rs 3444-3445: to_die.sort(); to_die.dedup()
sort_dedup(to_die) == SetToSeq(Range(to_die))

\* The variables of Spec while another specification runs
WIdle ==
    /\ w_pc = "cells"
    /\ w_world = WShips
    /\ w_next = 3
    /\ w_ent = [i \in Ids |-> IF i \in WShips THEN ShipEnt ELSE NoEnt]
    /\ w_ships = [i \in WShips |-> ShipStateNew(WStats, "English", 1)]
    /\ w_ai = {2}
    /\ w_way = [i \in WShips |-> <<>>]
    /\ w_to_die = <<>>
    /\ w_far = {}
    /\ w_start = WShips
    /\ w_before = WShips
    /\ w_count = [i \in Ids |-> 0]
    /\ w_error = FALSE
    /\ w_pairs = {}
    /\ w_effects = {}
    /\ w_lost = {}
    /\ w_held = {}
    /\ w_premove = [i \in WShips |-> <<>>]
    /\ w_reached = {}

\* Map::new and Cell::new: the player's English ship and a French ship that
\* has an AI
WInit ==
    /\ w_pc = "cells"
    /\ w_world = WShips
    /\ w_next = 3
    /\ w_ent = [i \in Ids |-> IF i \in WShips THEN ShipEnt ELSE NoEnt]
    /\ w_ships = [i \in WShips |->
                    ShipStateNew(WStats, IF i = WPlayer THEN "English"
                                         ELSE "French", 1)]
    /\ w_ai = {2}
    /\ w_way = [i \in WShips |-> <<>>]
    /\ w_to_die = <<>>
    /\ w_far = {}
    /\ w_start = WShips
    /\ w_before = WShips
    /\ w_count = [i \in Ids |-> 0]
    /\ w_error = FALSE
    /\ w_pairs = {}
    /\ w_effects = {}
    /\ w_lost = {}
    /\ w_held = {}
    /\ w_premove = [i \in WShips |-> <<>>]
    /\ w_reached = {}

\* game.rs 2121 and 2176-2186: to_die starts empty; every entity that has a
\* Position and is out of the cells around the player is queued
CellChanges ==
    /\ w_pc = "cells"
    /\ ~w_error
    /\ UNCHANGED notW
    /\ \E far \in {f \in SUBSET (w_world \ {WPlayer}) : Cardinality(f) <= MaxFar} :
         /\ w_far' = far
         /\ w_to_die' = SetToSeq(far)
    /\ w_start' = w_world
    /\ w_before' = w_world
    /\ w_count' = [i \in Ids |-> 0]
    /\ w_pairs' = {}
    /\ w_effects' = {}
    /\ w_lost' = {}
    /\ w_held' = {}
    /\ w_premove' = [i \in WShips |-> <<>>]
    /\ w_reached' = {}
    /\ w_pc' = "water"
    /\ UNCHANGED <<w_world, w_next, w_ent, w_ships, w_ai, w_way, w_error>>

\* game.rs 2342-2352: what fell below the water is queued
CollidesWithWater ==
    /\ w_pc = "water"
    /\ UNCHANGED notW
    /\ \E wet \in SUBSET {i \in w_world : collides_with_water(w_ent[i])} :
         w_to_die' = w_to_die \o SetToSeq(wet)
    /\ w_pc' = "collide"
    /\ UNCHANGED <<w_world, w_next, w_ent, w_ships, w_ai, w_way, w_far, w_start,
                   w_before, w_count, w_error, w_pairs, w_effects, w_lost, w_held,
                   w_premove, w_reached>>

\* game.rs 2582-2598: both sides of a pair, those that have an
\* OnContactEffect
contact_effects(pairs, ent) ==
    {e \in {<<p[1], p[2]>> : p \in pairs} \cup {<<p[2], p[1]>> : p \in pairs} :
       has_contact_effect(ent[e[1]])}

\* game.rs 2616-2674: the Die and the Hurt of one projectile on other_id;
\* st is [world, to_die, ships, lost, held]
apply_effects(st, e, rnd, ent, way) ==
    LET d == contact_die(st.world, st.to_die, e[1])
        other == e[2]
        hurt == other \in WShips /\ other \in d.world
        r == damage(st.ships[other], WPayload(ent[e[1]].team), 1, rnd)
        lost_now == /\ hurt
                    /\ st.ships[other].crew > 0
                    /\ r.ship.crew = 0
                    /\ r.ship.hull > 0
    IN [world |-> d.world,
        to_die |-> d.to_die,
        ships |-> IF hurt THEN [st.ships EXCEPT ![other] = r.ship] ELSE st.ships,
        lost |-> IF lost_now THEN st.lost \cup {other} ELSE st.lost,
        held |-> IF lost_now THEN st.held \cup Range(Markers(way[other]))
                 ELSE st.held]

RECURSIVE apply_all(_, _, _, _, _)
apply_all(st, effects, rnds, ent, way) ==
    IF effects = {} THEN st
    ELSE LET e == CHOOSE x \in effects :
                    \A y \in effects : x[1] * (MaxIds + 1) + x[2]
                                         <= y[1] * (MaxIds + 1) + y[2]
         IN apply_all(apply_effects(st, e, rnds[e], ent, way),
                      effects \ {e}, rnds, ent, way)

\* game.rs 2536-2766: the pairs all_pairs admits, and their contact effects
Collision ==
    /\ w_pc = "collide"
    /\ UNCHANGED notW
    /\ LET solids == {i \in w_world : has_solid(w_ent[i])}
           cands == {p \in solids \X solids : p[1] < p[2]}
       IN \E near \in {n \in SUBSET cands : Cardinality(n) <= MaxPairs} :
            LET pairs == all_pairs(near, [p \in cands |->
                                            pair_filter(w_ent, p[1], p[2])])
                effects == contact_effects(pairs, w_ent)
            IN \E rnds \in [effects -> WRnds] :
                 \E st \in {apply_all([world |-> w_world, to_die |-> w_to_die,
                                       ships |-> w_ships, lost |-> w_lost,
                                       held |-> w_held],
                                      effects, rnds, w_ent, w_way)} :
                    /\ w_pairs' = pairs
                    /\ w_effects' = effects
                    /\ w_world' = st.world
                    /\ w_to_die' = st.to_die
                    /\ w_ships' = st.ships
                    /\ w_lost' = st.lost
                    /\ w_held' = st.held
    /\ w_pc' = "input"
    /\ UNCHANGED <<w_next, w_ent, w_ai, w_way, w_far, w_start, w_before, w_count,
                   w_error, w_premove, w_reached>>

\* game.rs 2770-2850: a move order puts a marker down, in place of the
\* waypoints or, with the Queue key held, behind them; a stop order clears
\* the waypoints; a player that is not active orders nothing
PlayerOrders ==
    /\ w_pc = "input"
    /\ UNCHANGED notW
    /\ \E order \in {"none", "move", "queue", "stop"} :
         LET player_alive == WPlayer \in w_world /\ is_active(w_ships[WPlayer])
             cleared == Target_clear(w_way[WPlayer], w_to_die)
         IN CASE order = "none" \/ ~player_alive ->
                   UNCHANGED <<w_world, w_next, w_ent, w_way, w_to_die>>
              [] order = "stop" /\ player_alive ->
                   /\ w_way' = [w_way EXCEPT ![WPlayer] = cleared.way]
                   /\ w_to_die' = cleared.to_die
                   /\ UNCHANGED <<w_world, w_next, w_ent>>
              [] order \in {"move", "queue"} /\ player_alive ->
                   /\ w_next <= MaxIds
                   /\ w_world' = w_world \cup {w_next}
                   /\ w_ent' = [w_ent EXCEPT ![w_next] = MarkerEnt]
                   /\ w_next' = w_next + 1
                   /\ w_way' = [w_way EXCEPT ![WPlayer] =
                                   IF order = "queue" THEN Append(@, w_next)
                                   ELSE Append(cleared.way, w_next)]
                   /\ w_to_die' = IF order = "queue" THEN w_to_die
                                  ELSE cleared.to_die
    /\ w_pc' = "fire"
    /\ UNCHANGED <<w_ships, w_ai, w_far, w_start, w_before, w_count, w_error, w_pairs,
                   w_effects, w_lost, w_held, w_premove, w_reached>>

\* game.rs 2996-3114: a ship whose weapon is due fires: a muzzle flash and a
\* projectile of the ship's team with the ship as parent
WeaponFiring ==
    /\ w_pc = "fire"
    /\ UNCHANGED notW
    /\ \E shooter \in {0} \cup (w_world \cap WShips) :
         IF shooter = 0
         THEN UNCHANGED <<w_world, w_next, w_ent>>
         ELSE /\ w_next + 1 <= MaxIds
              /\ w_world' = w_world \cup {w_next, w_next + 1}
              /\ w_ent' = [w_ent EXCEPT
                             ![w_next] = FlashEnt,
                             ![w_next + 1] =
                                 ProjectileEnt(shooter, w_ships[shooter].team)]
              /\ w_next' = w_next + 2
    /\ w_pc' = "move"
    /\ UNCHANGED <<w_ships, w_ai, w_way, w_to_die, w_far, w_start, w_before, w_count,
                   w_error, w_pairs, w_effects, w_lost, w_held,
                   w_premove, w_reached>>

\* A slip: the last waypoint is removed in place of the first
reach_oneM11(way, to_die) ==
    [way |-> SubSeq(way, 1, Len(way) - 1),
     to_die |-> IF Head(way) # 0 THEN Append(to_die, Head(way)) ELSE to_die]

\* A slip: the marker of the waypoint is not queued
reach_oneM12(way, to_die) == [way |-> Tail(way), to_die |-> to_die]

\* game.rs 3163-3175: the ship is at its first waypoint: the marker is
\* queued and waypoints.remove(0)
reach_one(way, to_die) ==
    [way |-> Tail(way),
     to_die |-> IF Head(way) # 0 THEN Append(to_die, Head(way)) ELSE to_die]

\* game.rs 3144-3176 over the ships in `reached`
RECURSIVE reach_all(_, _, _)
reach_all(reached, way, to_die) ==
    IF reached = {} THEN [way |-> way, to_die |-> to_die]
    ELSE LET sh == CHOOSE x \in reached : \A y \in reached : x <= y
             r == reach_one(way[sh], to_die)
         IN reach_all(reached \ {sh}, [way EXCEPT ![sh] = r.way], r.to_die)

\* game.rs 3142-3201: every ship that has waypoints is within epsilon of the
\* first or steers towards it
TargetMovement ==
    /\ w_pc = "move"
    /\ UNCHANGED notW
    /\ \E reached \in SUBSET {i \in w_world \cap WShips : w_way[i] # <<>>} :
         \E r \in {reach_all(reached, w_way, w_to_die)} :
            /\ w_way' = r.way
            /\ w_to_die' = r.to_die
            /\ w_reached' = reached
    /\ w_premove' = w_way
    /\ w_pc' = "ai"
    /\ UNCHANGED <<w_world, w_next, w_ent, w_ships, w_ai, w_far, w_start,
                   w_before, w_count, w_error, w_pairs, w_effects, w_lost, w_held>>

\* game.rs 3203-3368: the ship that has an AI keeps its course, clears it to
\* attack, or clears it and heads for its target (a waypoint without marker)
AIPass ==
    /\ w_pc = "ai"
    /\ UNCHANGED notW
    /\ \E choice \in {"keep", "attack", "pursue"} :
         IF choice = "keep" \/ ~(2 \in w_ai /\ 2 \in w_world)
         THEN UNCHANGED <<w_way, w_to_die>>
         ELSE LET c == Target_clear(w_way[2], w_to_die)
              IN /\ w_way' = [w_way EXCEPT ![2] = IF choice = "pursue"
                                                  THEN Append(c.way, 0)
                                                  ELSE c.way]
                 /\ w_to_die' = c.to_die
    /\ w_pc' = "death"
    /\ UNCHANGED <<w_world, w_next, w_ent, w_ships, w_ai, w_far, w_start,
                   w_before, w_count, w_error, w_pairs, w_effects, w_lost, w_held,
                   w_premove, w_reached>>

\* game.rs 3371-3399, over the ships in `todo`; st is [way, to_die, ships, ai]
RECURSIVE death_all(_, _)
death_all(todo, st) ==
    IF todo = {} THEN st
    ELSE LET sh == CHOOSE x \in todo : \A y \in todo : x <= y
             c == Target_clear(st.way[sh], st.to_die)
         IN death_all(todo \ {sh},
                      IF death_needed(st.ships[sh])
                      THEN [way |-> [st.way EXCEPT ![sh] = c.way],
                            to_die |-> c.to_die,
                            ships |-> [st.ships EXCEPT ![sh] = death_handle(@)],
                            ai |-> st.ai \ {sh}]
                      ELSE st)

ShipStateDeath ==
    /\ w_pc = "death"
    /\ UNCHANGED notW
    /\ \E st \in {death_all(w_world \cap WShips,
                              [way |-> w_way, to_die |-> w_to_die,
                               ships |-> w_ships, ai |-> w_ai])} :
          /\ w_way' = st.way
          /\ w_to_die' = st.to_die
          /\ w_ships' = st.ships
          /\ w_ai' = st.ai
    /\ w_pc' = "ttd"
    /\ UNCHANGED <<w_world, w_next, w_ent, w_far, w_start, w_before, w_count, w_error,
                   w_pairs, w_effects, w_lost, w_held,
                   w_premove, w_reached>>

\* game.rs 3434-3459: the entities whose time has come are queued, and the
\* despawn loop ends the call; the components of a despawned ship go with it
RemoveDead ==
    /\ w_pc = "ttd"
    /\ UNCHANGED notW
    /\ \E expired \in SUBSET {i \in w_world : has_time_to_die(w_ent[i])} :
         \E to_die \in {w_to_die \o SetToSeq(expired)} :
         \E st \in {remove_dead(sort_dedup(to_die),
                                [world |-> w_world, count |-> w_count,
                                 error |-> FALSE])} :
            /\ w_to_die' = to_die
            /\ w_before' = w_world
            /\ w_world' = st.world
            /\ w_count' = st.count
            /\ w_error' = st.error
            /\ w_ai' = w_ai \cap st.world
            /\ w_way' = [i \in WShips |->
                           IF i \in st.world THEN w_way[i] ELSE <<>>]
    /\ w_pc' = "cells"
    /\ UNCHANGED <<w_next, w_ent, w_ships, w_far, w_start, w_pairs, w_effects,
                   w_lost, w_held,
                   w_premove, w_reached>>

WNext ==
    \/ CellChanges
    \/ CollidesWithWater
    \/ Collision
    \/ PlayerOrders
    \/ WeaponFiring
    \/ TargetMovement
    \/ AIPass
    \/ ShipStateDeath
    \/ RemoveDead

----------------------------------------------------------------------------
(* SpecDamage: one call of ShipState::damage on a ship within its ceilings *)

\* The largest number of gen_bool(0.9) successes the inputs enumerate
MaxWounds == 3

\* The ship class of the calls: 30 hull, 20 infirmary (tenths), 10 sails
\* (halves), 25 armor a segment, a crew of 3.
DStats == [hull |-> 300, crew |-> 3, sails |-> 20, infirmary |-> 200,
           armor |-> <<25, 25, 25, 25>>]

DArmors == {<<25, 25, 25, 25>>, <<0, 0, 0, 0>>, <<0, 5, 12, 25>>}

DShips == [hull : {0, 7, 300}, crew : {0, 3}, wounded : {0},
           experience : {8}, level : {2}, team : Teams,
           sails : {0, 20}, infirmary : {0, 200}, armor : DArmors]

\* Payloads: the default cannon of level 1 (damage 10) and a weak shot
\* (damage 1), with armor_damage 1 or 2.
DPayloads == {p \in [team : Teams, damage : {1, 10},
                    critical_multiplier : {1}, armor_damage : {1, 2},
                    sail_damage : {1}, crew_damage : {1}, item_chance : {1}] :
                 p.damage = 1 => p.armor_damage = 1}

DRnds == [crit : BOOLEAN, sail : BOOLEAN, internal : 0..2,
          wounds : 0..MaxWounds]

\* The headings of the ship that is hit: along the axis, and a quarter turn
Headings == {0, 2}

NoRnd == [crit |-> FALSE, sail |-> FALSE, internal |-> 0, wounds |-> 0]

NoDmg == [team |-> "Neutral", damage |-> 1, critical_multiplier |-> 1,
          armor_damage |-> 1, sail_damage |-> 1, crew_damage |-> 1,
          item_chance |-> 1]

\* The variables of SpecDamage while another specification runs
DIdle ==
    /\ d_pc = "ready"
    /\ d_ship = ShipStateNew(DStats, "Neutral", 1)
    /\ d_pre = d_ship
    /\ d_dmg = NoDmg
    /\ d_dir = 0
    /\ d_rnd = NoRnd
    /\ d_report = NoReport
    /\ d_rot = 0

DInit ==
    /\ d_pc = "ready"
    /\ d_ship \in DShips
    /\ d_pre = d_ship
    /\ d_dmg = NoDmg
    /\ d_dir = 0
    /\ d_rnd = NoRnd
    /\ d_report = NoReport
    /\ d_rot \in Headings

\* One call: state.damage(&damage, (pos - other_pos).normalize(), rng) of
\* game.rs 2636-2640; Position::dir of the ship is not an argument
DamageCall ==
    /\ d_pc = "ready"
    /\ UNCHANGED <<notD, d_rot>>
    /\ \E dmg \in DPayloads, dir \in Dirs, rnd \in DRnds :
         LET r == damage(d_ship, dmg, dir, rnd)
         IN /\ rnd.internal # 1 => rnd.wounds = 0
            /\ rnd.sail => rnd.internal = 0
            /\ d_pc' = IF r.panic THEN "panic" ELSE "done"
            /\ d_ship' = r.ship
            /\ d_pre' = d_ship
            /\ d_dmg' = dmg
            /\ d_dir' = dir
            /\ d_rnd' = rnd
            /\ d_report' = r.report

DNext == DamageCall

----------------------------------------------------------------------------
(* SpecAStar: AStarContext (src/src/astar.rs) through calls of solve.  A
   heuristic value, a square root, is kept as its square; an f_score is kept
   as the pair of the integral cost and the heuristic, and compared exactly. *)

\* AStarContext::new(size)
GridSize == 3

\* The largest number of cells for which is_solid is true in one call
MaxSolid == 1

Cells == (0..(GridSize - 1)) \X (0..(GridSize - 1))

Idxs == 0..(GridSize * GridSize - 1)

\* astar.rs 103: 1e6
FarCost == 1000000

\* astar.rs 70-75: the square of what the code returns
heuristic(from, to) ==
    (from[1] - to[1]) * (from[1] - to[1]) + (from[2] - to[2]) * (from[2] - to[2])

\* astar.rs 77-87: None is -1
map_to_idx(pos) ==
    IF pos[1] < 0 \/ pos[2] < 0 \/ pos[1] >= GridSize \/ pos[2] >= GridSize
    THEN -1
    ELSE pos[2] * GridSize + pos[1]

\* astar.rs 89-92
idx_to_map(idx) == <<idx % GridSize, idx \div GridSize>>

\* astar.rs 151: cost_fn(next), the closure the call was given
cost_fn(pos) == a_cost_fn[map_to_idx(pos)]

\* A cost_fn without extra cost
ZeroCost == [i \in Idxs |-> 0]

\* astar.rs 22-29 on f_score = g + sqrt(h): a.f_score < b.f_score
f_less(a, b) ==
    LET k == b.g - a.g
    IN IF k > 0
       THEN LET l == a.h - b.h - k * k
            IN l < 0 \/ l * l < 4 * k * k * b.h
       ELSE LET r == b.h - a.h - k * k
            IN r > 0 /\ 4 * k * k * a.h < r * r

\* BinaryHeap::pop on the min-heap: an entry no other entry is below; which
\* of several equal entries comes first is up to the heap
pop_choices(open) == {n \in open : \A m \in open : ~f_less(m, n)}

\* A slip: a diagonal step in place of the step down
NeighboursM13 == <<(<<-1, 0>>), (<<1, 0>>), (<<0, -1>>), (<<1, 1>>)>>

\* astar.rs 141: the steps to the four neighbours, in the order of the loop
Neighbours == <<(<<-1, 0>>), (<<1, 0>>), (<<0, -1>>), (<<0, 1>>)>>

\* A slip: the best cell so far is the last cell that got a cost
relax_oneM15(st, cur_idx, d, to, solid) ==
    LET cur == idx_to_map(cur_idx)
        next == <<cur[1] + d[1], cur[2] + d[2]>>
        next_idx == map_to_idx(next)
        new_cost == st.cost[cur_idx] + 1 + cost_fn(next)
        new_heuristic == heuristic(next, to)
    IN IF next_idx = -1 THEN st
       ELSE IF next \in solid THEN st
       ELSE IF ~(new_cost < st.cost[next_idx]) THEN st
       ELSE [came_from |-> [st.came_from EXCEPT ![next_idx] = cur_idx],
             cost |-> [st.cost EXCEPT ![next_idx] = new_cost],
             open |-> st.open \cup {[pos |-> next, g |-> new_cost,
                                     h |-> new_heuristic]},
             best_score |-> new_heuristic,
             best_idx |-> next_idx]

\* A slip: the extra cost of the cell is left out
relax_oneM29(st, cur_idx, d, to, solid) ==
    LET cur == idx_to_map(cur_idx)
        next == <<cur[1] + d[1], cur[2] + d[2]>>
        next_idx == map_to_idx(next)
        new_cost == st.cost[cur_idx] + 1
        new_heuristic == heuristic(next, to)
        better == new_heuristic < st.best_score
    IN IF next_idx = -1 THEN st
       ELSE IF next \in solid THEN st
       ELSE IF ~(new_cost < st.cost[next_idx]) THEN st
       ELSE [came_from |-> [st.came_from EXCEPT ![next_idx] = cur_idx],
             cost |-> [st.cost EXCEPT ![next_idx] = new_cost],
             open |-> st.open \cup {[pos |-> next, g |-> new_cost,
                                     h |-> new_heuristic]},
             best_score |-> IF better THEN new_heuristic ELSE st.best_score,
             best_idx |-> IF better THEN next_idx ELSE st.best_idx]

\* A slip: is_solid is not asked
relax_oneM30(st, cur_idx, d, to, solid) ==
    LET cur == idx_to_map(cur_idx)
        next == <<cur[1] + d[1], cur[2] + d[2]>>
        next_idx == map_to_idx(next)
        new_cost == st.cost[cur_idx] + 1 + cost_fn(next)
        new_heuristic == heuristic(next, to)
        better == new_heuristic < st.best_score
    IN IF next_idx = -1 THEN st
       ELSE IF ~(new_cost < st.cost[next_idx]) THEN st
       ELSE [came_from |-> [st.came_from EXCEPT ![next_idx] = cur_idx],
             cost |-> [st.cost EXCEPT ![next_idx] = new_cost],
             open |-> st.open \cup {[pos |-> next, g |-> new_cost,
                                     h |-> new_heuristic]},
             best_score |-> IF better THEN new_heuristic ELSE st.best_score,
             best_idx |-> IF better THEN next_idx ELSE st.best_idx]

\* A slip: came_from is written before the costs are compared
relax_oneM31(st, cur_idx, d, to, solid) ==
    LET cur == idx_to_map(cur_idx)
        next == <<cur[1] + d[1], cur[2] + d[2]>>
        next_idx == map_to_idx(next)
        new_cost == st.cost[cur_idx] + 1 + cost_fn(next)
        new_heuristic == heuristic(next, to)
        better == new_heuristic < st.best_score
        linked == [st.came_from EXCEPT ![next_idx] = cur_idx]
    IN IF next_idx = -1 THEN st
       ELSE IF next \in solid THEN st
       ELSE IF ~(new_cost < st.cost[next_idx])
       THEN [st EXCEPT !.came_from = linked]
       ELSE [came_from |-> linked,
             cost |-> [st.cost EXCEPT ![next_idx] = new_cost],
             open |-> st.open \cup {[pos |-> next, g |-> new_cost,
                                     h |-> new_heuristic]},
             best_score |-> IF better THEN new_heuristic ELSE st.best_score,
             best_idx |-> IF better THEN next_idx ELSE st.best_idx]

\* astar.rs 143-166: one neighbour of the popped cell; st is
\* [came_from, cost, open, best_score, best_idx]
relax_one(st, cur_idx, d, to, solid) ==
    LET cur == idx_to_map(cur_idx)
        next == <<cur[1] + d[1], cur[2] + d[2]>>
        next_idx == map_to_idx(next)
        new_cost == st.cost[cur_idx] + 1 + cost_fn(next)
        new_heuristic == heuristic(next, to)
        better == new_heuristic < st.best_score
    IN IF next_idx = -1 THEN st
       ELSE IF next \in solid THEN st
       ELSE IF ~(new_cost < st.cost[next_idx]) THEN st
       ELSE [came_from |-> [st.came_from EXCEPT ![next_idx] = cur_idx],
             cost |-> [st.cost EXCEPT ![next_idx] = new_cost],
             open |-> st.open \cup {[pos |-> next, g |-> new_cost,
                                     h |-> new_heuristic]},
             best_score |-> IF better THEN new_heuristic ELSE st.best_score,
             best_idx |-> IF better THEN next_idx ELSE st.best_idx]

\* astar.rs 141-167: the four neighbours, from the k-th on
RECURSIVE relax(_, _, _, _, _)
relax(st, cur_idx, k, to, solid) ==
    IF k > Len(Neighbours) THEN st
    ELSE CHOOSE r \in
           {relax(nst, cur_idx, k + 1, to, solid) :
              nst \in {relax_one(st, cur_idx, Neighbours[k], to, solid)}} : TRUE

\* astar.rs 126-138 and 174-186: the loop that follows came_from; an index
\* of -1 as usize is out of bounds, a chain that misses from_idx never ends
RECURSIVE reconstruct(_, _, _, _)
reconstruct(came_from, cur_idx, from_idx, fuel) ==
    LET nxt == came_from[cur_idx]
    IN IF nxt = -1 THEN [end |-> "panic", path |-> <<>>]
       ELSE IF nxt = from_idx
       THEN [end |-> "done", path |-> <<idx_to_map(nxt)>>]
       ELSE IF fuel = 0 THEN [end |-> "loop", path |-> <<>>]
       ELSE LET r == reconstruct(came_from, nxt, from_idx, fuel - 1)
            IN [end |-> r.end, path |-> <<idx_to_map(nxt)>> \o r.path]

\* astar.rs 169-191
best_effort(came_from, best_idx, from_idx) ==
    IF best_idx > -1
    THEN LET r == reconstruct(came_from, best_idx, from_idx,
                              GridSize * GridSize)
         IN [end |-> r.end, path |-> <<idx_to_map(best_idx)>> \o r.path]
    ELSE [end |-> "done", path |-> <<>>]

\* astar.rs 59-68: AStarContext::new(GridSize)
AStarContext_new ==
    [open |-> {}, came_from |-> [i \in Idxs |-> -1], cost |-> [i \in Idxs |-> 0]]

\* A slip: the open set is not cleared
solve_beginM32(ctx, from, to) ==
    [came_from |-> [i \in DOMAIN ctx.came_from |->
                      IF i = map_to_idx(from) THEN map_to_idx(from) ELSE -1],
     cost |-> [i \in DOMAIN ctx.cost |->
                 IF i = map_to_idx(from) THEN heuristic(from, from)
                 ELSE FarCost],
     open |-> ctx.open \cup {[pos |-> from, g |-> 0, h |-> heuristic(from, from)]},
     best_score |-> heuristic(from, to),
     best_idx |-> -1]

\* astar.rs 99-113: what a call on the context ctx = [open, came_from, cost]
\* sets up before its while loop
solve_begin(ctx, from, to) ==
    [came_from |-> [i \in DOMAIN ctx.came_from |->
                      IF i = map_to_idx(from) THEN map_to_idx(from) ELSE -1],
     cost |-> [i \in DOMAIN ctx.cost |->
                 IF i = map_to_idx(from) THEN heuristic(from, from)
                 ELSE FarCost],
     open |-> {[pos |-> from, g |-> 0, h |-> heuristic(from, from)]},
     best_score |-> heuristic(from, to),
     best_idx |-> -1]

\* astar.rs 116-191 from the search state st on: every [end, path] the call
\* can return, one for each order in which entries of equal f_score pop
RECURSIVE solve_results(_, _, _, _)
solve_results(st, from, to, solid) ==
    IF st.open = {}
    THEN {best_effort(st.came_from, st.best_idx, map_to_idx(from))}
    ELSE UNION {
           IF map_to_idx(cur.pos) = map_to_idx(to)
           THEN {[end |-> r.end, path |-> <<to>> \o r.path] :
                   r \in {reconstruct(st.came_from, map_to_idx(to),
                                      map_to_idx(from), GridSize * GridSize)}}
           ELSE solve_results(relax([st EXCEPT !.open = @ \ {cur}],
                                    map_to_idx(cur.pos), 1, to, solid),
                              from, to, solid) :
           cur \in pop_choices(st.open)}

\* AStarContext::new, astar.rs 59-68; the variables of SpecAStar while
\* another specification runs
AIdle ==
    /\ a_pc = "idle"
    /\ a_from = <<0, 0>>
    /\ a_to = <<0, 0>>
    /\ a_solid = {}
    /\ a_cost_fn = ZeroCost
    /\ a_least = 0
    /\ a_open = {}
    /\ a_came_from = [i \in Idxs |-> -1]
    /\ a_cost = [i \in Idxs |-> 0]
    /\ a_best_score = 0
    /\ a_best_idx = -1
    /\ a_path = <<>>
    /\ a_reused = FALSE
    /\ a_fresh = {}

\* The sets of at most k cells
RECURSIVE SolidSets(_)
SolidSets(k) ==
    IF k = 0 THEN {{}}
    ELSE LET smaller == SolidSets(k - 1)
         IN smaller \cup {s \cup {c} : s \in smaller, c \in Cells}

\* The cell next to `from` on the path a call returned
next_step(path, from) ==
    IF Len(path) >= 2 THEN path[Len(path) - 1] ELSE from

\* The number of 4-connected steps between two cells
Manhattan(a, b) ==
    (IF a[1] > b[1] THEN a[1] - b[1] ELSE b[1] - a[1])
    + (IF a[2] > b[2] THEN a[2] - b[2] ELSE b[2] - a[2])

\* More than any walk without a repeated cell can cost
NoPath == GridSize * GridSize * (FarCost + 4)

\* The indices of the cells 4-adjacent to the cell of index i
Adjacent ==
    [i \in Idxs |-> {j \in Idxs : Manhattan(idx_to_map(i), idx_to_map(j)) = 1}]

\* The least number of a set of numbers
Least(S) == CHOOSE x \in S : \A y \in S : x <= y

\* The indices of the cells, up and then down
SweepOrder ==
    [n \in 1..(2 * GridSize * GridSize) |->
       IF n <= GridSize * GridSize THEN n - 1
       ELSE 2 * GridSize * GridSize - n]

\* The reference search keeps the least cost found so far of a walk from
\* a_from to each cell, as a sequence: the cell of index i is at i + 1.
\* One sweep over the cells in SweepOrder, from the n-th on: a walk over
\* cells that are not solid may come from a 4-adjacent cell, and to enter a
\* cell costs 1 + cost_fn(cell)
RefLeast(d, i) ==
    IF idx_to_map(i) \in a_solid THEN d[i + 1]
    ELSE Least({d[i + 1]} \cup {d[j + 1] + 1 + a_cost_fn[i] :
                                  j \in Adjacent[i]})

RECURSIVE RefSweep(_, _)
RefSweep(d, n) ==
    IF n > Len(SweepOrder) THEN d
    ELSE CHOOSE r \in
           {RefSweep(nd, n + 1) :
              nd \in {[d EXCEPT ![SweepOrder[n] + 1] =
                                   RefLeast(d, SweepOrder[n])]}} : TRUE

\* The sweeps until nothing changes, at most k
RECURSIVE RefCost(_, _)
RefCost(d, k) ==
    CHOOSE r \in {IF k = 0 \/ nd = d THEN d ELSE RefCost(nd, k - 1) :
                    nd \in {RefSweep(d, 1)}} : TRUE

\* No walk found yet but the empty one
RefStart ==
    [n \in 1..(GridSize * GridSize) |->
       IF n = map_to_idx(a_from) + 1 THEN 0 ELSE NoPath]

MinCost == RefCost(RefStart, GridSize * GridSize)[map_to_idx(a_to) + 1]

\* astar.rs 99-115: a call on the context as the last call left it; the
\* first call draws the map (one of `maps`, each [solid, cost_fn]), the goal
\* and the start, a later call keeps the map and the goal and starts one
\* step along the path of the last call
SolveBeginWith(maps) ==
    /\ a_pc \in {"idle", "done"}
    /\ UNCHANGED notA
    /\ \E map \in IF a_pc = "done"
                   THEN {[solid |-> a_solid, cost_fn |-> a_cost_fn]}
                   ELSE maps,
          to \in IF a_pc = "done" THEN {a_to} ELSE Cells,
          from \in IF a_pc = "done" THEN {next_step(a_path, a_from)}
                   ELSE Cells :
         LET from_idx == map_to_idx(from)
         IN /\ a_from' = from
            /\ a_to' = to
            /\ a_solid' = map.solid
            /\ a_cost_fn' = map.cost_fn
            /\ a_came_from' = [i \in Idxs |-> IF i = from_idx THEN from_idx
                                              ELSE -1]
            /\ a_cost' = [i \in Idxs |-> IF i = from_idx
                                         THEN heuristic(from, from)
                                         ELSE FarCost]
            /\ a_open' = {[pos |-> from, g |-> 0, h |-> heuristic(from, from)]}
            /\ a_best_score' = heuristic(from, to)
    /\ a_best_idx' = -1
    /\ a_path' = <<>>
    /\ a_pc' = "search"

\* The calls on maps of solid cells, without extra cost
SolveBegin ==
    /\ SolveBeginWith({[solid |-> s, cost_fn |-> ZeroCost] :
                         s \in SolidSets(MaxSolid)})
    /\ UNCHANGED <<a_least, a_reused, a_fresh>>

\* The extra costs a cost_fn gives one cell; the last makes the cost of
\* entering it reach the 1e6 every cost starts at
Extras == {1, 3, FarCost}

\* The first call on a map without solid cells, with at most one cell of
\* extra cost; the reference search runs on its arguments
SolveBeginCost ==
    /\ a_pc = "idle"
    /\ SolveBeginWith({[solid |-> {}, cost_fn |-> ZeroCost]}
                      \cup {[solid |-> {},
                             cost_fn |-> [ZeroCost EXCEPT ![i] = x]] :
                               i \in Idxs, x \in Extras})
    /\ a_least' = MinCost'
    /\ UNCHANGED <<a_reused, a_fresh>>

\* astar.rs 116-168: one round of the while loop
SolveStep ==
    /\ a_pc = "search"
    /\ a_open # {}
    /\ UNCHANGED notA
    /\ \E cur \in pop_choices(a_open) :
         LET cur_idx == map_to_idx(cur.pos)
             to_idx == map_to_idx(a_to)
             from_idx == map_to_idx(a_from)
         IN IF cur_idx = to_idx
            THEN \E r \in {reconstruct(a_came_from, to_idx, from_idx,
                                        GridSize * GridSize)} :
                    /\ a_path' = <<a_to>> \o r.path
                    /\ a_pc' = r.end
                    /\ a_open' = a_open \ {cur}
                    /\ UNCHANGED <<a_came_from, a_cost, a_best_score,
                                   a_best_idx>>
            ELSE \E st \in {relax([came_from |-> a_came_from, cost |-> a_cost,
                                   open |-> a_open \ {cur},
                                   best_score |-> a_best_score,
                                   best_idx |-> a_best_idx],
                                  cur_idx, 1, a_to, a_solid)} :
                    /\ a_came_from' = st.came_from
                    /\ a_cost' = st.cost
                    /\ a_open' = st.open
                    /\ a_best_score' = st.best_score
                    /\ a_best_idx' = st.best_idx
                    /\ UNCHANGED <<a_path, a_pc>>
    /\ UNCHANGED <<a_from, a_to, a_solid, a_cost_fn, a_least, a_reused,
                   a_fresh>>

\* astar.rs 169-191: the open set is empty and the goal was not popped
SolveEnd ==
    /\ a_pc = "search"
    /\ a_open = {}
    /\ UNCHANGED notA
    /\ \E r \in {best_effort(a_came_from, a_best_idx, map_to_idx(a_from))} :
         /\ a_path' = r.path
         /\ a_pc' = r.end
    /\ UNCHANGED <<a_from, a_to, a_solid, a_cost_fn, a_least, a_open,
                   a_came_from, a_cost, a_best_score, a_best_idx, a_reused,
                   a_fresh>>

ANext ==
    \/ SolveBegin
    \/ SolveStep
    \/ SolveEnd

ACostNext ==
    \/ SolveBeginCost
    \/ SolveStep
    \/ SolveEnd

\* The calls with solid cells or with extra cost, again and again
ALiveNext ==
    \/ SolveBegin
    \/ SolveBeginCost
    \/ SolveStep
    \/ SolveEnd

\* astar.rs 95-115: a call on the context as the last call left it, on the
\* map of the first call, to any goal, from the cell the last path leads to
SolveAgain ==
    /\ a_pc \in {"idle", "done"}
    /\ UNCHANGED notA
    /\ \E solid \in IF a_pc = "done" THEN {a_solid} ELSE SolidSets(MaxSolid),
          to \in Cells,
          from \in IF a_pc = "done" THEN {next_step(a_path, a_from)}
                   ELSE Cells :
         /\ a_from' = from
         /\ a_to' = to
         /\ a_solid' = solid
         /\ \E st \in {solve_begin([open |-> a_open, came_from |-> a_came_from,
                                     cost |-> a_cost], from, to)} :
              /\ a_came_from' = st.came_from
              /\ a_cost' = st.cost
              /\ a_open' = st.open
              /\ a_best_score' = st.best_score
              /\ a_best_idx' = st.best_idx
         /\ a_fresh' = solve_results(solve_begin(AStarContext_new, from, to),
                                     from, to, solid)
    /\ a_reused' = (a_pc = "done")
    /\ a_path' = <<>>
    /\ a_pc' = "search"
    /\ UNCHANGED <<a_cost_fn, a_least>>

AReuseNext ==
    \/ SolveAgain
    \/ SolveStep
    \/ SolveEnd

----------------------------------------------------------------------------
(* SpecEconomy: Map::economy through update_economy (game.rs 1938-1954).
   An f32 is the record [m, e] of its 24-bit significand and the exponent of
   its last bit: the value m * 2^e with 2^23 <= m < 2^24.  The operations
   round to nearest, ties to even, as the hardware does; every intermediate
   integer stays below 2^31. *)

\* The economy ticks of one run
MaxTicks == 1

\* The f32 nearest to N * 2^E, for N of 27 to 30 bits whose last bit is set
\* when bits below it were dropped
f32_round(N, E) ==
    LET shift == IF N >= 2^29 THEN 6 ELSE IF N >= 2^28 THEN 5
                 ELSE IF N >= 2^27 THEN 4 ELSE 3
        q == N \div 2^shift
        r == N % 2^shift
        half == 2^(shift - 1)
        m == IF r > half \/ (r = half /\ q % 2 = 1) THEN q + 1 ELSE q
    IN IF m = 2^24 THEN [m |-> 2^23, e |-> E + shift + 1]
       ELSE [m |-> m, e |-> E + shift]

\* n with its last bit set if sticky
f32_sticky(n, sticky) == IF sticky /\ n % 2 = 0 THEN n + 1 ELSE n

\* a * b on f32: the 48-bit product from 12-bit halves
f32_mul(a, b) ==
    LET ah == a.m \div 4096
        al == a.m % 4096
        bh == b.m \div 4096
        bl == b.m % 4096
        mid == ah * bl + al * bh
        low == (mid % 4096) * 4096 + al * bl
        L == low % 2^24
        H == ah * bh + mid \div 4096 + low \div 2^24
    IN f32_round(f32_sticky(H * 16 + L \div 2^20, L % 2^20 # 0),
                 a.e + b.e + 20)

\* a + b on positive f32, with three guard bits
f32_add(a, b) ==
    LET hi == IF a.e >= b.e THEN a ELSE b
        lo == IF a.e >= b.e THEN b ELSE a
        d == hi.e - lo.e
        B == IF d >= 27 THEN 1
             ELSE f32_sticky((lo.m * 8) \div 2^d, (lo.m * 8) % 2^d # 0)
    IN f32_round(hi.m * 8 + B, hi.e - 3)

\* a / b on f32: 28 quotient bits by long division, six bits a step
f32_div(a, b) ==
    LET q0 == a.m \div b.m
        r0 == a.m % b.m
        q1 == (r0 * 64) \div b.m
        r1 == (r0 * 64) % b.m
        q2 == (r1 * 64) \div b.m
        r2 == (r1 * 64) % b.m
        q3 == (r2 * 64) \div b.m
        r3 == (r2 * 64) % b.m
        q4 == (r3 * 64) \div b.m
        r4 == (r3 * 64) % b.m
        q5 == (r4 * 8) \div b.m
        r5 == (r4 * 8) % b.m
        q == ((((q0 * 64 + q1) * 64 + q2) * 64 + q3) * 64 + q4) * 8 + q5
    IN f32_round(f32_sticky(q, r5 # 0), a.e - b.e - 27)

\* a < b on positive f32
f32_lt(a, b) == a.e < b.e \/ (a.e = b.e /\ a.m < b.m)

\* 0.0; a negative f32 has a negative m
f32_zero == [m |-> 0, e |-> 0]

f32_neg(a) == [m |-> 0 - a.m, e |-> a.e]

f32_abs(a) == IF a.m < 0 THEN f32_neg(a) ELSE a

\* An exact positive value m * 2^e with m < 2^24, as a normal f32
RECURSIVE f32_norm(_, _)
f32_norm(m, e) == IF m >= 2^23 THEN [m |-> m, e |-> e]
                  ELSE f32_norm(2 * m, e - 1)

\* n * 2^E rounded to nearest even after dropping `shift` bits
f32_round_at(n, shift, E) ==
    LET q == n \div 2^shift
        r == n % 2^shift
        half == 2^(shift - 1)
        m == IF r > half \/ (r = half /\ q % 2 = 1) THEN q + 1 ELSE q
    IN IF m = 2^24 THEN [m |-> 2^23, e |-> E + shift + 1]
       ELSE [m |-> m, e |-> E + shift]

\* hi - lo for positive normal hi > lo
f32_sub(hi, lo) ==
    LET d == hi.e - lo.e
    IN IF d = 0 THEN f32_norm(hi.m - lo.m, hi.e)
       ELSE IF d = 1
       THEN LET n == 2 * hi.m - lo.m
            IN IF n < 2^24 THEN f32_norm(n, lo.e)
               ELSE f32_round_at(n, 1, lo.e)
       ELSE LET dd == IF d > 27 THEN 27 ELSE d
                b == lo.m * 8
                sticky == b % 2^dd # 0
                n == hi.m * 8 - b \div 2^dd - (IF sticky THEN 1 ELSE 0)
                ns == f32_sticky(n, sticky)
            IN f32_round_at(ns, IF ns >= 2^26 THEN 3 ELSE 2, hi.e - 3)

\* a + b for any two f32 (the sign of a zero is not kept)
f32_plus(a, b) ==
    IF a.m = 0 THEN (IF b.m = 0 THEN f32_zero ELSE b)
    ELSE IF b.m = 0 THEN a
    ELSE IF (a.m > 0) = (b.m > 0)
    THEN LET r == f32_add(f32_abs(a), f32_abs(b))
         IN IF a.m > 0 THEN r ELSE f32_neg(r)
    ELSE IF f32_abs(a) = f32_abs(b) THEN f32_zero
    ELSE IF f32_lt(f32_abs(b), f32_abs(a))
    THEN LET r == f32_sub(f32_abs(a), f32_abs(b))
         IN IF a.m > 0 THEN r ELSE f32_neg(r)
    ELSE LET r == f32_sub(f32_abs(b), f32_abs(a))
         IN IF b.m > 0 THEN r ELSE f32_neg(r)

f32_minus(a, b) == f32_plus(a, f32_neg(b))

\* a * b for any two f32 (the sign of a zero is not kept)
f32_times(a, b) ==
    IF a.m = 0 \/ b.m = 0 THEN f32_zero
    ELSE LET r == f32_mul(f32_abs(a), f32_abs(b))
         IN IF (a.m > 0) = (b.m > 0) THEN r ELSE f32_neg(r)

\* The literals of update_economy
F1000 == [m |-> 16384000, e |-> -14]

F1_25 == [m |-> 10485760, e |-> -23]

\* (1.25_f32).powf(-1.): 0.8 rounded to f32, 0x3F4CCCCD
F0_8 == [m |-> 13421773, e |-> -24]

\* game.rs 1944-1948: cur_sum, the array added up from the left (0. + x is x)
cur_sum(economy) ==
    f32_add(f32_add(f32_add(f32_add(economy[0], economy[1]), economy[2]),
                    economy[3]), economy[4])

\* A slip: the array is scaled by the sum it had before the index was moved
update_economyM16(economy, idx, up) ==
    LET moved == [economy EXCEPT ![idx] = f32_mul(@, IF up THEN F1_25 ELSE F0_8)]
        scale == f32_div(F1000, cur_sum(economy))
    IN [i \in 0..4 |-> f32_mul(moved[i], scale)]

\* game.rs 1938-1954 with idx and dir as drawn
update_economy(economy, idx, up) ==
    LET moved == [economy EXCEPT ![idx] = f32_mul(@, IF up THEN F1_25 ELSE F0_8)]
        scale == f32_div(F1000, cur_sum(moved))
    IN [i \in 0..4 |-> f32_mul(moved[i], scale)]

\* game.rs 2051-2056: rng.gen_range(100.0..200.0), here 100. or 199.99998
EValues == {[m |-> 13107200, e |-> -17], [m |-> 13107199, e |-> -16]}

\* The variables of SpecEconomy while another specification runs
EIdle ==
    /\ e_pre = [i \in 0..4 |-> F1000]
    /\ e_economy = e_pre
    /\ e_idx = 0
    /\ e_up = FALSE
    /\ e_ticks = 0

\* Map::new, game.rs 2051-2057: the array is drawn and updated once
EInit ==
    /\ e_pre \in [0..4 -> EValues]
    /\ e_idx \in 0..4
    /\ e_up \in BOOLEAN
    /\ e_economy = update_economy(e_pre, e_idx, e_up)
    /\ e_ticks = 0

\* game.rs 2128-2160: the economy tick of Map::logic
EconomyTick ==
    /\ e_ticks < MaxTicks
    /\ UNCHANGED notE
    /\ \E idx \in 0..4, up \in BOOLEAN :
         /\ e_economy' = update_economy(e_economy, idx, up)
         /\ e_idx' = idx
         /\ e_up' = up
    /\ e_pre' = e_economy
    /\ e_ticks' = e_ticks + 1

ENext == EconomyTick

----------------------------------------------------------------------------
(* SpecLevel: ShipState::compute_level as a pure call *)

MaxExperience == 30

LIdle ==
    /\ l_exp = <<1, 1>>
    /\ l_level = <<1, 1>>

\* Two ships whose level is not computed yet (0); experience is whole
\* points here, 0 included (an f32 below level_experience(1))
LInit ==
    /\ l_exp \in (0..MaxExperience) \X (0..MaxExperience)
    /\ l_level = <<0, 0>>

\* components.rs 1571-1579 on both ships
ComputeLevel ==
    /\ l_level = <<0, 0>>
    /\ l_level' =
         <<compute_level([experience |-> l_exp[1], level |-> 0]).level,
           compute_level([experience |-> l_exp[2], level |-> 0]).level>>
    /\ UNCHANGED <<l_exp, notL>>

LNext == ComputeLevel

----------------------------------------------------------------------------
(* SpecItems: affixes, Weapon::stats and generate_weapon (components.rs) *)

MaxAffixes == 2

F0_1 == [m |-> 13421773, e |-> -27]
F0_2 == [m |-> 13421773, e |-> -26]
F0_3 == [m |-> 10066330, e |-> -25]
F0_4 == [m |-> 13421773, e |-> -25]
F0_5 == [m |-> 8388608, e |-> -24]
F0_6 == [m |-> 10066330, e |-> -24]
F0_7 == [m |-> 11744051, e |-> -24]
F0_9 == [m |-> 15099494, e |-> -24]
F1 == [m |-> 8388608, e |-> -23]
F1_1 == [m |-> 9227469, e |-> -23]
F1_3 == [m |-> 10905190, e |-> -23]
F1_4 == [m |-> 11744051, e |-> -23]
F1_5 == [m |-> 12582912, e |-> -23]
F1_7 == [m |-> 14260634, e |-> -23]
F2 == [m |-> 8388608, e |-> -22]
F3 == [m |-> 12582912, e |-> -22]
F10 == [m |-> 10485760, e |-> -20]
F50 == [m |-> 13107200, e |-> -18]
F0_05 == [m |-> 13421773, e |-> -28]
\* PI / 2. and PI / 12. with the f32 PI
FPi2 == [m |-> 13176795, e |-> -23]
FPi12 == [m |-> 8784530, e |-> -25]

\* The ship levels the calls are made with: one for each max_tier
Levels == {1, 5, 10}

\* components.rs 10-13: (level as f32).powf(0.5), for the levels above
level_effectiveness(level) ==
    IF level = 1 THEN F1
    ELSE IF level = 5 THEN [m |-> 9378749, e |-> -22]
    ELSE [m |-> 13263554, e |-> -22]

\* The rolls f: 0., 0.5 and 1.; gen_range(0.0..1.0) never draws 1.
FValues == {f32_zero, F0_5, F1}

FGen == {F0_5}

\* components.rs 138-228: OfficerPrefix, by prefix_idx
OfficerPrefixes ==
    << [stat |-> "reload_speed", breakpoints |-> <<F0_1, F0_3, F0_5, F0_7>>],
       [stat |-> "speed", breakpoints |-> <<f32_zero, F0_1, F0_2, F0_3>>],
       [stat |-> "accuracy", breakpoints |-> <<F0_1, F0_2, F0_3, F0_4>>],
       [stat |-> "critical_chance",
        breakpoints |-> <<F0_1, F0_3, F0_5, F0_7>>] >>

\* components.rs 230-350: OfficerSuffix, by suffix_idx
OfficerSuffixes ==
    << [stat |-> "armor_repair", breakpoints |-> <<F0_1, F0_3, F0_5, F0_7>>],
       [stat |-> "hull_repair",
        breakpoints |-> <<f32_zero, F0_1, F0_2, F0_3>>],
       [stat |-> "infirmary_repair",
        breakpoints |-> <<F0_1, F0_2, F0_3, F0_4>>],
       [stat |-> "sail_repair", breakpoints |-> <<F0_1, F0_3, F0_5, F0_7>>],
       [stat |-> "item_protect", breakpoints |-> <<F0_1, F0_3, F0_5, F0_7>>],
       [stat |-> "medic", breakpoints |-> <<F0_1, F0_3, F0_5, F0_7>>] >>

\* components.rs 355-529: WeaponPrefix, by prefix_idx
WeaponPrefixes ==
    << [stat |-> "fire_interval",
        breakpoints |-> <<F0_9, F0_7, F0_5, F0_3>>,
        name |-> <<"Rapid ", "Accelerated ", "Electric ">>],
       [stat |-> "arc", breakpoints |-> <<F1_1, F1_3, F1_5, F1_7>>,
        name |-> <<"Rigid ", "Swiveled ", "Articulated ">>],
       [stat |-> "speed", breakpoints |-> <<F1_1, F1_3, F1_5, F1_7>>,
        name |-> <<"Fast ", "Winged ", "Fleet ">>],
       [stat |-> "spread", breakpoints |-> <<F0_9, F0_6, F0_3, f32_zero>>,
        name |-> <<"Accurate ", "Polished ", "Rifled ">>],
       [stat |-> "crew_weight", breakpoints |-> <<F1_1, F1_3, F1_5, F1_7>>,
        name |-> <<"Bloodthirsty ", "Meat-loving ", "Widow-making ">>],
       [stat |-> "sail_weight", breakpoints |-> <<F1_1, F1_3, F1_5, F1_7>>,
        name |-> <<"Punching ", "Tearing ", "Ripping ">>],
       [stat |-> "infirmary_weight",
        breakpoints |-> <<F1_1, F1_3, F1_5, F1_7>>,
        name |-> <<"Cruel ", "Ruthless ", "Sadistic ">>],
       [stat |-> "hull_weight", breakpoints |-> <<F1_1, F1_3, F1_5, F1_7>>,
        name |-> <<"Breaking ", "Crushing ", "Destroying ">>],
       [stat |-> "critical_chance",
        breakpoints |-> <<F1_1, F1_4, F1_7, F2>>,
        name |-> <<"Observant ", "Calculating ", "Eagle-Eyed ">>] >>

\* components.rs 532-655: WeaponSuffix, by suffix_idx
WeaponSuffixes ==
    << [stat |-> "damage", breakpoints |-> <<F1_1, F1_4, F1_7, F2>>,
        name |-> <<" of the Newt", " of the Whale", " of the Leviathan">>],
       [stat |-> "critical_multiplier",
        breakpoints |-> <<F1_1, F1_4, F1_7, F2>>,
        name |-> <<" of Exploitation", " of Domination", " of Finality">>],
       [stat |-> "crew_damage", breakpoints |-> <<F1_1, F1_4, F1_7, F2>>,
        name |-> <<" of Misery", " of Sickness", " of Death">>],
       [stat |-> "sail_damage", breakpoints |-> <<F1_1, F1_4, F1_7, F2>>,
        name |-> <<" of Chafing", " of Tattering", " of Fraying">>],
       [stat |-> "item_chance", breakpoints |-> <<F1_1, F1_4, F1_7, F2>>,
        name |-> <<" of Frugality", " of Scarcity", " of Nothingness">>],
       [stat |-> "armor_damage", breakpoints |-> <<F1_1, F1_4, F1_7, F2>>,
        name |-> <<" of the Trickle", " of Gushing", " of Flooding">>] >>

WEAPON_PREFIX_WEIGHTS == <<1, 10, 10, 10, 20, 5, 5, 5, 2>>

WEAPON_SUFFIX_WEIGHTS == <<5, 1, 5, 10, 10, 10>>

\* The weights of num_prefixes and num_suffixes = 0, 1, 2, 3
COUNT_WEIGHTS == <<25, 10, 2, 1>>

\* rand_distr::WeightedIndex: an index whose weight is positive
WeightedIndex(weights) == {i \in 0..(Len(weights) - 1) : weights[i + 1] > 0}

\* let effect = min + f * (max - min), with the sum taken first
effectM18(breakpoints, tier, f) ==
    LET min == breakpoints[tier + 1]
        max == breakpoints[tier + 2]
    IN f32_minus(f32_times(f, f32_plus(min, max)), min)

\* let effect = min + f * (max - min)
effect(breakpoints, tier, f) ==
    LET min == breakpoints[tier + 1]
        max == breakpoints[tier + 2]
    IN f32_plus(min, f32_times(f, f32_minus(max, min)))

\* components.rs 185-227: OfficerPrefix::apply
officer_prefix_apply(prefix, stats) ==
    LET k == OfficerPrefixes[prefix.idx + 1]
    IN [stats EXCEPT ![k.stat] =
            f32_plus(@, effect(k.breakpoints, prefix.tier, prefix.f))]

\* components.rs 291-351: OfficerSuffix::apply
officer_suffix_apply(suffix, stats) ==
    LET k == OfficerSuffixes[suffix.idx + 1]
    IN [stats EXCEPT ![k.stat] =
            f32_plus(@, effect(k.breakpoints, suffix.tier, suffix.f))]

\* components.rs 443-529: WeaponPrefix::apply
weapon_prefix_apply(prefix, stats) ==
    LET k == WeaponPrefixes[prefix.idx + 1]
    IN [stats EXCEPT ![k.stat] =
            f32_times(@, effect(k.breakpoints, prefix.tier, prefix.f))]

\* components.rs 596-655: WeaponSuffix::apply
weapon_suffix_apply(suffix, stats) ==
    LET k == WeaponSuffixes[suffix.idx + 1]
    IN [stats EXCEPT ![k.stat] =
            f32_times(@, effect(k.breakpoints, suffix.tier, suffix.f))]

\* components.rs 373-441 and 547-594: name
weapon_prefix_name(prefix) == WeaponPrefixes[prefix.idx + 1].name[prefix.tier + 1]

weapon_suffix_name(suffix) == WeaponSuffixes[suffix.idx + 1].name[suffix.tier + 1]

\* components.rs 707-726
default_weapon_stats(level) ==
    [fire_interval |-> F1, speed |-> F50, arc |-> FPi2, spread |-> FPi12,
     damage |-> f32_times(F10, level_effectiveness(level)),
     critical_chance |-> F0_05, critical_multiplier |-> F1,
     armor_damage |-> F1, sail_damage |-> F1, crew_damage |-> F1,
     item_chance |-> F1, hull_weight |-> F1, sail_weight |-> F0_5,
     crew_weight |-> F3, infirmary_weight |-> F1]

\* components.rs 1320-1338: DerivedShipStats::new
DerivedShipStats_new ==
    [reload_speed |-> f32_zero, speed |-> f32_zero, accuracy |-> f32_zero,
     critical_chance |-> f32_zero, armor_repair |-> f32_zero,
     hull_repair |-> f32_zero, infirmary_repair |-> f32_zero,
     sail_repair |-> f32_zero, item_protect |-> f32_zero,
     medic |-> f32_zero]

\* The two loops of Weapon::stats from the k-th prefix and the k-th suffix
\* on: the stats and the affixes in the order they were applied
RECURSIVE apply_prefixes(_, _, _)
apply_prefixes(prefixes, k, acc) ==
    IF k > Len(prefixes) THEN acc
    ELSE apply_prefixes(prefixes, k + 1,
             [stats |-> weapon_prefix_apply(prefixes[k], acc.stats),
              trace |-> Append(acc.trace, <<"prefix", k>>)])

RECURSIVE apply_suffixes(_, _, _)
apply_suffixes(suffixes, k, acc) ==
    IF k > Len(suffixes) THEN acc
    ELSE apply_suffixes(suffixes, k + 1,
             [stats |-> weapon_suffix_apply(suffixes[k], acc.stats),
              trace |-> Append(acc.trace, <<"suffix", k>>)])

\* components.rs 692-704: Weapon::stats
weapon_stats(weapon) ==
    apply_suffixes(weapon.suffixes, 1,
        apply_prefixes(weapon.prefixes, 1,
            [stats |-> default_weapon_stats(weapon.level), trace |-> <<>>]))

\* components.rs 1077-1089
max_tier(level) == IF level < 5 THEN 1 ELSE IF level < 10 THEN 2 ELSE 3

\* What one pass of an affix loop draws: the index, the tier and f
PrefixDraws(level) ==
    [idx : WeightedIndex(WEAPON_PREFIX_WEIGHTS),
     tier : 0..(max_tier(level) - 1), f : FGen]

SuffixDraws(level) ==
    [idx : WeightedIndex(WEAPON_SUFFIX_WEIGHTS),
     tier : 0..(max_tier(level) - 1), f : FGen]

\* The sequences of n draws
RECURSIVE DrawSeqs(_, _)
DrawSeqs(S, n) ==
    IF n = 0 THEN {<<>>}
    ELSE {Append(q, x) : q \in DrawSeqs(S, n - 1), x \in S}

\* components.rs 1667-1736: generate_weapon_name, one of the names it draws
\* (the prefix "", the noun "Gun", the suffix "")
RareNames == {"Gun"}

\* generate_weapon whose prefix loop stops one pass early
generate_weaponM19(level, num_prefixes, num_suffixes, pd, sd, rare) ==
    LET rarity == IF num_prefixes = 0 /\ num_suffixes = 0 THEN "Normal"
                  ELSE IF num_prefixes <= 1 /\ num_suffixes <= 1
                  THEN "Magic" ELSE "Rare"
        prefixes == [k \in 1..(num_prefixes - 1) |-> pd[k]]
        suffixes == [k \in 1..num_suffixes |-> sd[k]]
        name == IF rarity = "Normal" THEN "Cannon"
                ELSE IF rarity = "Magic"
                THEN (IF prefixes = <<>> THEN ""
                      ELSE weapon_prefix_name(prefixes[1]))
                     \o "Cannon"
                     \o (IF suffixes = <<>> THEN ""
                         ELSE weapon_suffix_name(suffixes[1]))
                ELSE rare
    IN [name |-> name, rarity |-> rarity, prefixes |-> prefixes,
        suffixes |-> suffixes, level |-> level]

\* components.rs 1058-1160: generate_weapon on the draws of its rng: the
\* two counts, the draws of each loop pass and the name of a rare weapon
generate_weapon(level, num_prefixes, num_suffixes, pd, sd, rare) ==
    LET rarity == IF num_prefixes = 0 /\ num_suffixes = 0 THEN "Normal"
                  ELSE IF num_prefixes <= 1 /\ num_suffixes <= 1
                  THEN "Magic" ELSE "Rare"
        prefixes == [k \in 1..num_prefixes |-> pd[k]]
        suffixes == [k \in 1..num_suffixes |-> sd[k]]
        name == IF rarity = "Normal" THEN "Cannon"
                ELSE IF rarity = "Magic"
                THEN (IF prefixes = <<>> THEN ""
                      ELSE weapon_prefix_name(prefixes[1]))
                     \o "Cannon"
                     \o (IF suffixes = <<>> THEN ""
                         ELSE weapon_suffix_name(suffixes[1]))
                ELSE rare
    IN [name |-> name, rarity |-> rarity, prefixes |-> prefixes,
        suffixes |-> suffixes, level |-> level]

NoItem == [name |-> "", rarity |-> "Normal", prefixes |-> <<>>,
           suffixes |-> <<>>, level |-> 0]

NoAffix == [who |-> "none", part |-> "none", idx |-> 0, tier |-> 0,
            f |-> f32_zero]

NoDraw == [level |-> 0, num_prefixes |-> 0, num_suffixes |-> 0]

NoPrev == [num_prefixes |-> 0, num_suffixes |-> 0, rarity |-> ""]

IIdle ==
    /\ i_pc = "idle"
    /\ i_draw = NoDraw
    /\ i_item = NoItem
    /\ i_stats = DerivedShipStats_new
    /\ i_trace = <<>>
    /\ i_affix = NoAffix
    /\ i_base = DerivedShipStats_new
    /\ i_prev = NoPrev

\* A slip: the rarity is taken from the sum of the two counts
GenerateCallM36(prefix_idxs, suffix_idxs) ==
    /\ \E level \in Levels,
          num_prefixes \in WeightedIndex(COUNT_WEIGHTS),
          num_suffixes \in WeightedIndex(COUNT_WEIGHTS) :
         /\ num_prefixes <= MaxAffixes
         /\ num_suffixes <= MaxAffixes
         /\ level = 1 \/ (num_prefixes <= 1 /\ num_suffixes <= 1)
         /\ \E pd \in DrawSeqs({d \in PrefixDraws(level) :
                                  d.idx \in prefix_idxs}, num_prefixes),
               sd \in DrawSeqs({d \in SuffixDraws(level) :
                                  d.idx \in suffix_idxs}, num_suffixes),
               rare \in RareNames :
              /\ i_item' = [generate_weapon(level, num_prefixes,
                                            num_suffixes, pd, sd, rare)
                              EXCEPT !.rarity =
                                IF num_prefixes + num_suffixes = 0 THEN "Normal"
                                ELSE IF num_prefixes + num_suffixes <= 2
                                THEN "Magic" ELSE "Rare"]
              /\ i_draw' = [level |-> level, num_prefixes |-> num_prefixes,
                            num_suffixes |-> num_suffixes]
    /\ i_prev' = IF i_pc = "generated"
                 THEN [num_prefixes |-> i_draw.num_prefixes,
                       num_suffixes |-> i_draw.num_suffixes,
                       rarity |-> i_item.rarity]
                 ELSE NoPrev
    /\ i_pc' = "generated"
    /\ UNCHANGED <<i_stats, i_trace, i_affix, i_base, notI>>

\* A generate_weapon call.  Up to MaxAffixes prefixes and suffixes are
\* drawn at level 1, and up to one of each at the higher levels.  i_prev
\* keeps the counts and the rarity of the weapon of the call before; the
\* affix loops draw their indices from prefix_idxs and suffix_idxs.
GenerateCall(prefix_idxs, suffix_idxs) ==
    /\ \E level \in Levels,
          num_prefixes \in WeightedIndex(COUNT_WEIGHTS),
          num_suffixes \in WeightedIndex(COUNT_WEIGHTS) :
         /\ num_prefixes <= MaxAffixes
         /\ num_suffixes <= MaxAffixes
         /\ level = 1 \/ (num_prefixes <= 1 /\ num_suffixes <= 1)
         /\ \E pd \in DrawSeqs({d \in PrefixDraws(level) :
                                  d.idx \in prefix_idxs}, num_prefixes),
               sd \in DrawSeqs({d \in SuffixDraws(level) :
                                  d.idx \in suffix_idxs}, num_suffixes),
               rare \in RareNames :
              /\ i_item' = generate_weapon(level, num_prefixes,
                                           num_suffixes, pd, sd, rare)
              /\ i_draw' = [level |-> level, num_prefixes |-> num_prefixes,
                            num_suffixes |-> num_suffixes]
    /\ i_prev' = IF i_pc = "generated"
                 THEN [num_prefixes |-> i_draw.num_prefixes,
                       num_suffixes |-> i_draw.num_suffixes,
                       rarity |-> i_item.rarity]
                 ELSE NoPrev
    /\ i_pc' = "generated"
    /\ UNCHANGED <<i_stats, i_trace, i_affix, i_base, notI>>

\* A generate_weapon call, any affix drawn
GenerateWeapon ==
    /\ i_pc = "idle"
    /\ GenerateCall(WeightedIndex(WEAPON_PREFIX_WEIGHTS),
                    WeightedIndex(WEAPON_SUFFIX_WEIGHTS))

\* The affix indices drawn when weapons are generated one after the other
MaxRarityIdx == 0

\* The first of several generate_weapon calls
GenerateFirst ==
    /\ i_pc = "idle"
    /\ GenerateCall(0..MaxRarityIdx, 0..MaxRarityIdx)

\* One more generate_weapon call (Cell::new, the drops of a sunk ship)
GenerateAnother ==
    /\ i_pc = "generated"
    /\ GenerateCall(0..MaxRarityIdx, 0..MaxRarityIdx)

\* Weapon::stats of the generated weapon
WeaponStats ==
    /\ i_pc = "generated"
    /\ LET r == weapon_stats(i_item)
       IN /\ i_stats' = r.stats
          /\ i_trace' = r.trace
    /\ i_base' = default_weapon_stats(i_item.level)
    /\ i_pc' = "stats"
    /\ UNCHANGED <<i_draw, i_item, i_affix, i_prev, notI>>

\* One apply call of a weapon affix on the default stats of a level
ApplyWeaponAffix ==
    /\ i_pc = "idle"
    /\ \E level \in Levels, tier \in 0..2, f \in FValues :
         LET base == default_weapon_stats(level)
         IN /\ i_base' = base
            /\ \/ \E idx \in WeightedIndex(WEAPON_PREFIX_WEIGHTS) :
                    LET a == [idx |-> idx, tier |-> tier, f |-> f]
                    IN /\ i_affix' = [who |-> "weapon", part |-> "prefix",
                                      idx |-> idx, tier |-> tier, f |-> f]
                       /\ i_stats' = weapon_prefix_apply(a, base)
               \/ \E idx \in WeightedIndex(WEAPON_SUFFIX_WEIGHTS) :
                    LET a == [idx |-> idx, tier |-> tier, f |-> f]
                    IN /\ i_affix' = [who |-> "weapon", part |-> "suffix",
                                      idx |-> idx, tier |-> tier, f |-> f]
                       /\ i_stats' = weapon_suffix_apply(a, base)
    /\ i_pc' = "applied"
    /\ UNCHANGED <<i_draw, i_item, i_trace, i_prev, notI>>

\* One apply call of an officer affix on DerivedShipStats::new()
ApplyOfficerAffix ==
    /\ i_pc = "idle"
    /\ \E tier \in 0..2, f \in FValues :
         LET base == DerivedShipStats_new
         IN /\ i_base' = base
            /\ \/ \E idx \in 0..(Len(OfficerPrefixes) - 1) :
                    LET a == [idx |-> idx, tier |-> tier, f |-> f]
                    IN /\ i_affix' = [who |-> "officer", part |-> "prefix",
                                      idx |-> idx, tier |-> tier, f |-> f]
                       /\ i_stats' = officer_prefix_apply(a, base)
               \/ \E idx \in 0..(Len(OfficerSuffixes) - 1) :
                    LET a == [idx |-> idx, tier |-> tier, f |-> f]
                    IN /\ i_affix' = [who |-> "officer", part |-> "suffix",
                                      idx |-> idx, tier |-> tier, f |-> f]
                       /\ i_stats' = officer_suffix_apply(a, base)
    /\ i_pc' = "applied"
    /\ UNCHANGED <<i_draw, i_item, i_trace, i_prev, notI>>

INext ==
    \/ GenerateWeapon
    \/ WeaponStats
    \/ ApplyWeaponAffix
    \/ ApplyOfficerAffix

\* Weapons generated one after the other
IRarityNext ==
    \/ GenerateFirst
    \/ GenerateAnother

----------------------------------------------------------------------------
(* SpecAI: the AI of the ships through the passes of Map::logic *)

MaxShip == 3

MaxShots == 1

NShips == 1..MaxShip

\* Map::player
NPlayer == 1

AIState(state, target) == [state |-> state, target |-> target]

AIIdle == AIState("Idle", 0)

NoAI == AIState("None", 0)

\* A ship the World no longer contains
Gone == [team |-> "Neutral", active |-> FALSE]

NIdle ==
    /\ n_pc = "off"
    /\ n_world = {}
    /\ n_ss = [i \in NShips |-> Gone]
    /\ n_ai = [i \in NShips |-> NoAI]
    /\ n_want = [i \in NShips |-> FALSE]
    /\ n_way = [i \in NShips |-> 0]
    /\ n_dock = 0
    /\ n_shots = {}
    /\ n_dying = {}

\* game.rs 2078 and 2240-2242: the player's ship is English and has no AI,
\* every other ship is English or French and starts Idle; all are active
NInit ==
    /\ n_pc = "contact"
    /\ n_world = NShips
    /\ \E teams \in [NShips -> {"English", "French"}] :
         /\ teams[NPlayer] = "English"
         /\ n_ss = [i \in NShips |-> [team |-> teams[i], active |-> TRUE]]
    /\ n_ai = [i \in NShips |-> IF i = NPlayer THEN NoAI ELSE AIIdle]
    /\ n_want = [i \in NShips |-> FALSE]
    /\ n_way = [i \in NShips |-> 0]
    /\ n_dock = 0
    /\ n_shots = {}
    /\ n_dying = {}

\* game.rs 2614-2760, one Hurt effect of projectile s on ship v: damage may
\* disable the ship, and a ship with an AI turns on the projectile's parent
Hurt(s, v) ==
    /\ \E active \in BOOLEAN :
         /\ active = n_ss[v].active
            \/ (~active /\ can_damage(s.team, n_ss[v].team))
         /\ n_ss' = [n_ss EXCEPT ![v].active = active]
    /\ n_ai' = IF n_ai[v].state # "None"
               THEN [n_ai EXCEPT ![v] = AIState("Pursuing", s.parent)]
               ELSE n_ai
    /\ n_dying' = n_dying \cup {s}

\* The contact effects of the call: none, or one projectile on one ship
HurtEffects ==
    /\ n_pc = "contact"
    /\ \/ UNCHANGED <<n_ss, n_ai, n_dying>>
       \/ \E s \in n_shots, v \in n_world : v # s.parent /\ Hurt(s, v)
    /\ n_pc' = "input"
    /\ UNCHANGED <<n_world, n_want, n_way, n_dock, n_shots, notN>>

\* game.rs 2769-2924 for the keys of one call: Attack held or not, and
\* no dock request (target 0) or one on a ship that is near or far
Input(want_attack, target_entity, near) ==
    LET player_alive == n_ss[NPlayer].active
        want_dock == target_entity # 0
        docks == /\ want_dock
                 /\ player_alive
                 /\ dock_with(n_ss[target_entity].team, n_ss[NPlayer].team)
        pauses == docks /\ ~near /\ n_ai[target_entity].state # "None"
    IN /\ n_want' = [n_want EXCEPT ![NPlayer] =
                         IF ~want_attack THEN FALSE
                         ELSE IF player_alive THEN TRUE ELSE @]
       /\ n_dock' = IF want_dock /\ player_alive
                    THEN (IF docks /\ near THEN target_entity ELSE 0)
                    ELSE n_dock
       /\ n_ai' = IF pauses
                  THEN [n_ai EXCEPT ![target_entity] = AIState("Pause", 0)]
                  ELSE n_ai
       /\ n_way' = [i \in NShips |->
                       IF i = NPlayer /\ docks /\ near THEN 0
                       ELSE IF i = target_entity /\ pauses THEN 1
                       ELSE n_way[i]]

PlayerInput ==
    /\ n_pc = "input"
    /\ \E want_attack \in BOOLEAN :
         \/ Input(want_attack, 0, FALSE)
         \/ \E target_entity \in n_world \ {NPlayer}, near \in BOOLEAN :
              Input(want_attack, target_entity, near)
    /\ n_pc' = "fire"
    /\ UNCHANGED <<n_world, n_ss, n_shots, n_dying, notN>>

\* game.rs 2994-3095: the ships whose want_attack is set may spawn a
\* projectile that carries their id and their team
EquipmentActions ==
    /\ n_pc = "fire"
    /\ \E firing \in SUBSET {i \in n_world : n_want[i]} :
         LET fired == {[parent |-> i, team |-> n_ss[i].team] : i \in firing}
         IN /\ Cardinality(n_shots \cup fired) <= MaxShots
            /\ n_shots' = n_shots \cup fired
    /\ n_pc' = "ai"
    /\ UNCHANGED <<n_world, n_ss, n_ai, n_want, n_way, n_dock, n_dying, notN>>

\* game.rs 3216-3367 for one ship: what the arm of its state can leave, over
\* the distances the ships may be at and the time that may have passed
AIOutcomes(id) ==
    LET ai == n_ai[id]
        keep == [ai |-> ai, want |-> n_want[id], way |-> n_way[id]]
        t == ai.target
        not_enemy == ~is_enemy(n_ss[t].team, n_ss[id].team)
    IN IF id = n_dock THEN {[keep EXCEPT !.way = 0]}
       ELSE IF ai.state = "Pause" THEN {keep, [keep EXCEPT !.ai = AIIdle]}
       ELSE IF ai.state = "Idle"
       THEN {[keep EXCEPT !.ai = AIState("Pursuing", e)] :
                e \in {o \in n_world \ {id} :
                          is_enemy(n_ss[o].team, n_ss[id].team)}}
            \cup {[keep EXCEPT !.way = 1]}
       ELSE IF ai.state = "Pursuing"
       THEN (IF t \notin n_world THEN {[keep EXCEPT !.ai = AIIdle]}
             ELSE IF not_enemy THEN {[keep EXCEPT !.ai = AIIdle]}
             ELSE {[keep EXCEPT !.way = 0, !.ai = AIState("Attacking", t)],
                   [keep EXCEPT !.ai = AIIdle],
                   [keep EXCEPT !.way = 1]})
       ELSE (IF t \notin n_world THEN {[keep EXCEPT !.ai = AIIdle]}
             ELSE IF not_enemy
             THEN {[keep EXCEPT !.ai = AIIdle, !.want = FALSE]}
             ELSE {[keep EXCEPT !.ai = AIState("Pursuing", t),
                                !.want = FALSE],
                   [keep EXCEPT !.way = 1, !.want = TRUE]})

\* The ships the AI query visits
AIQuery == {i \in n_world : n_ai[i].state # "None"}

AILogic ==
    /\ n_pc = "ai"
    /\ \E r \in [AIQuery -> UNION {AIOutcomes(i) : i \in AIQuery}] :
         /\ \A i \in AIQuery : r[i] \in AIOutcomes(i)
         /\ n_ai' = [i \in NShips |->
                        IF i \in AIQuery THEN r[i].ai ELSE n_ai[i]]
         /\ n_want' = [i \in NShips |->
                          IF i \in AIQuery THEN r[i].want ELSE n_want[i]]
         /\ n_way' = [i \in NShips |->
                         IF i \in AIQuery THEN r[i].way ELSE n_way[i]]
    /\ n_pc' = "death"
    /\ UNCHANGED <<n_world, n_ss, n_dock, n_shots, n_dying, notN>>

\* game.rs 3371-3399
ShipDeath ==
    /\ n_pc = "death"
    /\ LET remove_ai == {i \in n_world :
                            ~n_ss[i].active /\ n_ss[i].team # "Neutral"}
       IN /\ n_ss' = [i \in NShips |->
                         IF i \in remove_ai
                         THEN [n_ss[i] EXCEPT !.team = "Neutral"]
                         ELSE n_ss[i]]
          /\ n_way' = [i \in NShips |->
                          IF i \in remove_ai THEN 0 ELSE n_way[i]]
          /\ n_ai' = [i \in NShips |->
                         IF i \in remove_ai THEN NoAI ELSE n_ai[i]]
          /\ n_want' = [i \in NShips |->
                           IF i \in remove_ai THEN FALSE ELSE n_want[i]]
    /\ n_pc' = "despawn"
    /\ UNCHANGED <<n_world, n_dock, n_shots, n_dying, notN>>

\* game.rs 2162-2186 and the end of Map::logic: the projectiles that hit or
\* ran out of time are despawned, and at most one ship that cell streaming
\* found out of range
Despawn ==
    /\ n_pc = "despawn"
    /\ \E far \in SUBSET (n_world \ {NPlayer}), timed \in SUBSET n_shots :
         /\ Cardinality(far) <= 1
         /\ n_world' = n_world \ far
         /\ n_shots' = n_shots \ (n_dying \cup timed)
         /\ n_ss' = [i \in NShips |-> IF i \in far THEN Gone ELSE n_ss[i]]
         /\ n_ai' = [i \in NShips |-> IF i \in far THEN NoAI ELSE n_ai[i]]
         /\ n_want' = [i \in NShips |-> IF i \in far THEN FALSE ELSE n_want[i]]
         /\ n_way' = [i \in NShips |-> IF i \in far THEN 0 ELSE n_way[i]]
    /\ n_dying' = {}
    /\ n_pc' = "contact"
    /\ UNCHANGED <<n_dock, notN>>

NNext ==
    \/ HurtEffects
    \/ PlayerInput
    \/ EquipmentActions
    \/ AILogic
    \/ ShipDeath
    \/ Despawn

----------------------------------------------------------------------------
(* SpecFire: one weapon of the player's ship through the equipment screen
   and the passes of Map::logic.  time_to_fire is kept as the number of
   later calls whose time is not yet past it. *)

\* readiness 1.0
Full == 2

\* The calls a scheduled shot may have to wait: state.time() + 0.0..0.2
MaxDelay == 2

\* time_to_fire is None
NoTime == 0 - 1

FIdle ==
    /\ f_pc = "off"
    /\ f_active = TRUE
    /\ f_neutral = FALSE
    /\ f_want = FALSE
    /\ f_slot = "weapon"
    /\ f_ready = 0
    /\ f_ttf = NoTime
    /\ f_shot = {}

\* components.rs 1154: a new weapon has readiness 0 and no time_to_fire; it
\* is generated into a weapon slot or into the inventory
FInit ==
    /\ f_pc = "ui"
    /\ f_active = TRUE
    /\ f_neutral = FALSE
    /\ f_want = FALSE
    /\ f_slot \in {"weapon", "inventory"}
    /\ f_ready = 0
    /\ f_ttf = NoTime
    /\ f_shot = {}

\* components.rs 1282-1292
reset_cooldowns(ready) == 0

\* game.rs 1161-1177: the dragged weapon is dropped into a slot of the other
\* kind; the drop resets its cooldowns
DropItem ==
    /\ f_pc = "ui"
    /\ f_slot' = IF f_slot = "weapon" THEN "inventory" ELSE "weapon"
    /\ f_ready' = reset_cooldowns(f_ready)
    /\ UNCHANGED <<f_pc, f_active, f_neutral, f_want, f_ttf, f_shot, notF>>

\* game.rs 2466-2510, the start of a call: a weapon outside the inventory
\* reloads, by dt * fire_rate_adjustment / fire_interval, which is 0 for a
\* crew of 0
WeaponHandling ==
    /\ f_pc = "ui"
    /\ \E step \in 0..1 :
         f_ready' = IF f_slot = "weapon" /\ f_active
                    THEN Min(f_ready + step, Full) ELSE f_ready
    /\ f_pc' = "contact"
    /\ UNCHANGED <<f_active, f_neutral, f_want, f_slot, f_ttf, f_shot, notF>>

\* game.rs 2614-2665: a Hurt effect may take the last of the hull or crew
ShipHurt ==
    /\ f_pc = "contact"
    /\ \E disabled \in BOOLEAN : f_active' = (f_active /\ ~disabled)
    /\ f_pc' = "input"
    /\ UNCHANGED <<f_neutral, f_want, f_slot, f_ready, f_ttf, f_shot, notF>>

\* game.rs 2770-2865: the Attack key sets want_attack while the player is
\* alive, and clears it when it is not held
AttackInput ==
    /\ f_pc = "input"
    /\ \E want_attack \in BOOLEAN :
         f_want' = IF ~want_attack THEN FALSE
                   ELSE IF f_active THEN TRUE ELSE f_want
    /\ f_pc' = "fire"
    /\ UNCHANGED <<f_active, f_neutral, f_slot, f_ready, f_ttf, f_shot, notF>>

\* game.rs 2996-3100 for the weapon: delay is the draw of gen_range, in_arc
\* whether a spawn direction was found.  The result is the weapon after the
\* pass and the projectile it spawned.
equipment_actions(slot, ready, ttf, want, active, neutral, delay, in_arc) ==
    LET wait == IF ttf = NoTime THEN NoTime ELSE Max(ttf - 1, 0)
    IN IF slot = "inventory"
       THEN [ready |-> ready, ttf |-> wait, shot |-> {}]
       ELSE IF ttf = NoTime
       THEN [ready |-> ready,
             ttf |-> IF ready >= Full /\ want THEN delay ELSE NoTime,
             shot |-> {}]
       ELSE IF ttf > 0
       THEN [ready |-> ready, ttf |-> wait, shot |-> {}]
       ELSE IF in_arc
       THEN [ready |-> 0, ttf |-> NoTime,
             shot |-> {[slot |-> slot, ready |-> ready, want |-> want,
                        active |-> active, neutral |-> neutral]}]
       ELSE [ready |-> ready, ttf |-> NoTime, shot |-> {}]

FireWeapons ==
    /\ f_pc = "fire"
    /\ \E delay \in 0..(MaxDelay - 1), in_arc \in BOOLEAN :
         \E r \in {equipment_actions(f_slot, f_ready, f_ttf, f_want, f_active,
                                     f_neutral, delay, in_arc)} :
            /\ f_ready' = r.ready
            /\ f_ttf' = r.ttf
            /\ f_shot' = r.shot
    /\ f_pc' = "death"
    /\ UNCHANGED <<f_active, f_neutral, f_want, f_slot, notF>>

\* game.rs 3371-3399
FireShipDeath ==
    /\ f_pc = "death"
    /\ f_neutral' = (f_neutral \/ ~f_active)
    /\ f_want' = IF ~f_active /\ ~f_neutral THEN FALSE ELSE f_want
    /\ f_pc' = "ui"
    /\ UNCHANGED <<f_active, f_slot, f_ready, f_ttf, f_shot, notF>>

FNext ==
    \/ DropItem
    \/ WeaponHandling
    \/ ShipHurt
    \/ AttackInput
    \/ FireWeapons
    \/ FireShipDeath

----------------------------------------------------------------------------
(* SpecHurt: the Hurt effects of projectiles on one ship, call after call of
   Map::logic: the damage, the AI of the ship, its items, and the experience
   of the ship that fired. *)

\* Hurt effects on the ship in one call
MaxHurts == 2

\* The ship that fired is the player's
HParent == NPlayer

\* components.rs 20-23
enemy_experience(level) == 2 * level * level

\* The ship that is hit: 20 hull, a crew of 3, armor on one segment only
HStats == [hull |-> 200, crew |-> 3, sails |-> 10, infirmary |-> 100,
           armor |-> <<0, 0, 10, 0>>]

\* The projectiles: a cannon ball of the ship's own team, of an enemy, or of
\* a derelict
HPayloads == {p \in DPayloads : /\ p.damage = 10 /\ p.armor_damage = 1
                                /\ p.team # "Pirate"}

\* Straight ahead (segment 2), and the direction whose atan2 is PI
HDirs == {0, 4}

HRnds == {r \in DRnds : /\ ~r.crit
                        /\ r.wounds \in {0, MaxWounds}
                        /\ r.internal # 1 => r.wounds = 0
                        /\ r.sail => r.internal = 0}

Slots == 1..2

NoShip == [present |-> FALSE, experience |-> 0, level |-> 0]

HIdle ==
    /\ h_pc = "off"
    /\ h_ss = ShipStateNew(HStats, "Neutral", 1)
    /\ h_stats = [level |-> 1, exp_bonus |-> 1]
    /\ h_ai = NoAI
    /\ h_items = <<"None", "None">>
    /\ h_parent = NoShip
    /\ h_hits = 0
    /\ h_dmg = NoDmg
    /\ h_report = NoReport
    /\ h_pre = [ss |-> h_ss, ai |-> h_ai, items |-> h_items,
                parent |-> h_parent]

\* game.rs 2240-2260: an AI ship of some level, at its ceilings, with a
\* weapon and an officer; the ship that fires is of level 1
HInit ==
    /\ h_pc = "contact"
    /\ h_stats \in {[level |-> 1, exp_bonus |-> 1],
                    [level |-> 2, exp_bonus |-> 3]}
    /\ h_ss = ShipStateNew(HStats, "French", h_stats.level)
    /\ h_ai = AIIdle
    /\ h_items = <<"Weapon", "Officer">>
    /\ h_parent = [present |-> TRUE, experience |-> 1, level |-> 1]
    /\ h_hits = 0
    /\ h_dmg = NoDmg
    /\ h_report = NoReport
    /\ h_pre = [ss |-> h_ss, ai |-> h_ai, items |-> h_items,
                parent |-> h_parent]

\* game.rs 2689-2735: the items of the slots after the rolls; rolled are the
\* slots whose gen_bool(destroy_prob / (1 + item_protect)) came out true
destroy_items(items, rolled, disabled) ==
    [i \in Slots |->
        IF i \in rolled THEN "None"
        ELSE IF disabled /\ items[i] = "Officer" THEN "None"
        ELSE items[i]]

\* game.rs 2742-2762
award_experience(parent, level, exp_bonus) ==
    IF parent.present
    THEN LET experience == parent.experience
                           + exp_bonus * enemy_experience(level)
         IN [parent EXCEPT !.experience = experience,
                           !.level = compute_level_from(1, experience)]
    ELSE parent

\* A slip: every damaging hit on a ship that is not active counts as the one
\* that disabled it
hurtM28(ss, ai, items, parent, stats, dmg, dir, rnd, rolled) ==
    LET r == damage(ss, dmg, dir, rnd)
        report == r.report
        disabled == report.damaged /\ ~is_active(r.ship)
        destroyed == disabled /\ ~is_structurally_sound(r.ship)
        destroy_prob == IF destroyed THEN 75 ELSE report.item_destroy_chance
    IN [panic |-> r.panic,
        ss |-> r.ship,
        report |-> report,
        ai |-> IF ai = NoAI THEN ai ELSE AIState("Pursuing", HParent),
        items |-> destroy_items(items,
                                IF destroy_prob > 0 THEN rolled ELSE {},
                                disabled),
        parent |-> IF disabled
                   THEN award_experience(parent, r.ship.level,
                                         stats.exp_bonus)
                   ELSE parent]

\* game.rs 2614-2762: one Hurt effect on the ship
hurt(ss, ai, items, parent, stats, dmg, dir, rnd, rolled) ==
    LET r == damage(ss, dmg, dir, rnd)
        report == r.report
        disabled == report.damaged /\ is_active(ss) # is_active(r.ship)
        destroyed == disabled /\ ~is_structurally_sound(r.ship)
        destroy_prob == IF destroyed THEN 75 ELSE report.item_destroy_chance
    IN [panic |-> r.panic,
        ss |-> r.ship,
        report |-> report,
        ai |-> IF ai = NoAI THEN ai ELSE AIState("Pursuing", HParent),
        items |-> destroy_items(items,
                                IF destroy_prob > 0 THEN rolled ELSE {},
                                disabled),
        parent |-> IF disabled
                   THEN award_experience(parent, r.ship.level,
                                         stats.exp_bonus)
                   ELSE parent]

HurtEffect ==
    /\ h_pc = "contact"
    /\ h_hits < MaxHurts
    /\ \E dmg \in HPayloads, dir \in HDirs, rnd \in HRnds,
          rolled \in {{}, {1}, Slots} :
         \E r \in {hurt(h_ss, h_ai, h_items, h_parent, h_stats, dmg, dir,
                        rnd, rolled)} :
            /\ h_pc' = IF r.panic THEN "panic" ELSE "contact"
            /\ h_dmg' = dmg
            /\ h_hits' = h_hits + 1
            /\ h_pre' = [ss |-> h_ss, ai |-> h_ai, items |-> h_items,
                         parent |-> h_parent]
            /\ IF r.panic
               THEN UNCHANGED <<h_ss, h_ai, h_items, h_parent, h_report>>
               ELSE /\ h_ss' = r.ss
                    /\ h_report' = r.report
                    /\ h_ai' = r.ai
                    /\ h_items' = r.items
                    /\ h_parent' = r.parent
    /\ UNCHANGED <<h_stats, notH>>

\* The rest of the contact effects of the call
HurtDone ==
    /\ h_pc = "contact"
    /\ h_pc' = "death"
    /\ UNCHANGED <<h_ss, h_stats, h_ai, h_items, h_parent, h_hits, h_dmg,
                   h_report, h_pre, notH>>

\* game.rs 3371-3399, and 2162-2186 at the end of the call: the ship that
\* fired may be out of range of the cell streaming and be despawned
HurtShipDeath ==
    /\ h_pc = "death"
    /\ LET dies == ~is_active(h_ss) /\ h_ss.team # "Neutral"
       IN /\ h_ss' = IF dies
                     THEN [h_ss EXCEPT !.team = "Neutral", !.crew = 0,
                                       !.wounded = 0]
                     ELSE h_ss
          /\ h_ai' = IF dies THEN NoAI ELSE h_ai
    /\ \E far \in BOOLEAN : h_parent' = IF far THEN NoShip ELSE h_parent
    /\ h_hits' = 0
    /\ h_pc' = "contact"
    /\ UNCHANGED <<h_stats, h_items, h_dmg, h_report, h_pre, notH>>

HNext ==
    \/ HurtEffect
    \/ HurtDone
    \/ HurtShipDeath

----------------------------------------------------------------------------
(* SpecPause: an AI ship of the player's team, which the player targets
   and may ask to dock with, through the passes of Map::logic.  The time of
   AIState::Pause is kept as the number of AI passes it still covers. *)

\* The AI passes for which time <= time_to_unpause = state.time() + 1.
MaxPause == 2

\* The other ship: an enemy in range, whose projectile hits
PEnemy == Other(NPlayer)

PIdle ==
    /\ p_pc = "off"
    /\ p_ai = NoAI
    /\ p_wait = 0
    /\ p_way = <<>>
    /\ p_dock = FALSE
    /\ p_active = TRUE

\* game.rs 2240-2260: the ship starts Idle with no waypoints
PInit ==
    /\ p_pc = "contact"
    /\ p_ai = AIIdle
    /\ p_wait = 0
    /\ p_way = <<>>
    /\ p_dock = FALSE
    /\ p_active = TRUE

\* game.rs 2614-2687: a Hurt effect may disable the ship, and redirects its
\* AI to the parent of the projectile
PauseHurt ==
    /\ p_pc = "contact"
    /\ \/ UNCHANGED <<p_ai, p_active>>
       \/ /\ \E disabled \in BOOLEAN : p_active' = (p_active /\ ~disabled)
          /\ p_ai' = IF p_ai = NoAI THEN p_ai
                     ELSE AIState("Pursuing", PEnemy)
    /\ p_pc' = "input"
    /\ UNCHANGED <<p_wait, p_way, p_dock, notP>>

\* A slip: the paused ship is sent nowhere
dock_requestM24(ai, way, near) ==
    IF near THEN [dock |-> TRUE, ai |-> ai, way |-> way, paused |-> FALSE]
    ELSE IF ai # NoAI
    THEN [dock |-> FALSE, ai |-> AIState("Pause", 0), way |-> <<>>,
          paused |-> TRUE]
    ELSE [dock |-> FALSE, ai |-> ai, way |-> way, paused |-> FALSE]

\* game.rs 2866-2924 for a target the player may dock with: near it the
\* ship becomes the dock_entity; far from it a ship with an AI is paused,
\* its waypoints are cleared and it is sent to the player's position
dock_request(ai, way, near) ==
    IF near THEN [dock |-> TRUE, ai |-> ai, way |-> way, paused |-> FALSE]
    ELSE IF ai # NoAI
    THEN [dock |-> FALSE, ai |-> AIState("Pause", 0), way |-> <<"player">>,
          paused |-> TRUE]
    ELSE [dock |-> FALSE, ai |-> ai, way |-> way, paused |-> FALSE]

\* game.rs 2770-2924: no order, an order that ends the docking (2818), or
\* the Dock key on the ship
DockInput ==
    /\ p_pc = "input"
    /\ \/ UNCHANGED <<p_ai, p_wait, p_way, p_dock>>
       \/ p_dock' = FALSE /\ UNCHANGED <<p_ai, p_wait, p_way>>
       \/ \E near \in BOOLEAN :
            \E r \in {dock_request(p_ai, p_way, near)} :
               /\ p_dock' = r.dock
               /\ p_ai' = r.ai
               /\ p_way' = r.way
               /\ p_wait' = IF r.paused THEN MaxPause ELSE p_wait
    /\ p_pc' = "move"
    /\ UNCHANGED <<p_active, notP>>

\* game.rs 3142-3201: the ship may have reached its first waypoint
PauseTargetMovement ==
    /\ p_pc = "move"
    /\ \E reached \in BOOLEAN :
         p_way' = IF reached /\ p_way # <<>> THEN Tail(p_way) ELSE p_way
    /\ p_pc' = "ai"
    /\ UNCHANGED <<p_ai, p_wait, p_dock, p_active, notP>>

\* game.rs 3216-3367 for the ship: what the arm of its state can leave, over
\* the distances the ships may be at; expired is time > time_to_unpause
ai_arm(ai, way, dock, expired) ==
    LET keep == [ai |-> ai, way |-> way]
    IN IF dock THEN {[keep EXCEPT !.way = <<>>]}
       ELSE IF ai.state = "Pause"
       THEN {IF expired THEN [keep EXCEPT !.ai = AIIdle] ELSE keep}
       ELSE IF ai.state = "Idle"
       THEN {[keep EXCEPT !.ai = AIState("Pursuing", PEnemy)],
             IF way = <<>> THEN [keep EXCEPT !.way = <<"wander">>] ELSE keep}
       ELSE IF ai.state = "Pursuing"
       THEN {[keep EXCEPT !.ai = AIIdle],
             [keep EXCEPT !.way = <<>>,
                          !.ai = AIState("Attacking", ai.target)],
             [keep EXCEPT !.way = <<"chase">>]}
       ELSE {[keep EXCEPT !.ai = AIIdle],
             [keep EXCEPT !.ai = AIState("Pursuing", ai.target)],
             IF way = <<>> THEN [keep EXCEPT !.way = <<"circle">>] ELSE keep}

PauseAI ==
    /\ p_pc = "ai"
    /\ IF p_ai = NoAI
       THEN UNCHANGED <<p_ai, p_way>>
       ELSE \E r \in ai_arm(p_ai, p_way, p_dock, p_wait = 0) :
               /\ p_ai' = r.ai
               /\ p_way' = r.way
    /\ p_wait' = Max(p_wait - 1, 0)
    /\ p_pc' = "death"
    /\ UNCHANGED <<p_dock, p_active, notP>>

\* game.rs 3371-3399
PauseShipDeath ==
    /\ p_pc = "death"
    /\ p_ai' = IF p_active THEN p_ai ELSE NoAI
    /\ p_way' = IF p_active \/ p_ai = NoAI THEN p_way ELSE <<>>
    /\ p_pc' = "contact"
    /\ UNCHANGED <<p_wait, p_dock, p_active, notP>>

PNext ==
    \/ PauseHurt
    \/ DockInput
    \/ PauseTargetMovement
    \/ PauseAI
    \/ PauseShipDeath

----------------------------------------------------------------------------
(* SpecContact: projectiles and two ships through the collision passes of
   Map::logic, call after call.  A pair is kept as ball * 4 + ship. *)

\* The projectiles of a behaviour
MaxBalls == 2

\* The pairs all_pairs returns in one call
MaxTouch == 2

CShips == {1, 2}

CBalls == 3..(2 + MaxBalls)

CPairs == {b * 4 + v : b \in CBalls, v \in CShips}

\* game.rs 2557: for pass in 0..5
Passes == 0..4

\* The passes on which a pair is within reach: never, on the first only,
\* from the second on (pushed together by another pair), or on all
TouchPatterns == {{}, {0}, 1..4, Passes}

CIdle ==
    /\ c_pc = "off"
    /\ c_world = {}
    /\ c_next = 3
    /\ c_touch = <<>>
    /\ c_tick = [p \in CPairs |-> 0]
    /\ c_life = [p \in CPairs |-> 0]
    /\ c_to_die = <<>>

CInit ==
    /\ c_pc = "collide"
    /\ c_world = {}
    /\ c_next = 3
    /\ c_touch = <<>>
    /\ c_tick = [p \in CPairs |-> 0]
    /\ c_life = [p \in CPairs |-> 0]
    /\ c_to_die = <<>>

\* game.rs 2559-2574 and 2593-2610 for one pass: the (id, other_id) of the
\* pairs within reach, for the side that has an OnContactEffect
RECURSIVE touching(_, _, _)
touching(pass, pairs, touch) ==
    IF pairs = <<>> THEN <<>>
    ELSE (IF pass \in touch[Head(pairs)] THEN <<Head(pairs)>> ELSE <<>>)
         \o touching(pass, Tail(pairs), touch)

\* A slip: the effects are collected on every pass
RECURSIVE on_contact_effectsM22(_, _, _)
on_contact_effectsM22(pass, pairs, touch) ==
    IF pass \notin Passes THEN <<>>
    ELSE touching(pass, pairs, touch)
         \o on_contact_effectsM22(pass + 1, pairs, touch)

\* game.rs 2556-2612: the five relaxation passes; on_contact_effects grows
\* on pass 0 only
RECURSIVE on_contact_effects(_, _, _)
on_contact_effects(pass, pairs, touch) ==
    IF pass \notin Passes THEN <<>>
    ELSE (IF pass = 0 THEN touching(pass, pairs, touch) ELSE <<>>)
         \o on_contact_effects(pass + 1, pairs, touch)

\* How often e occurs in seq
RECURSIVE Occurs(_, _)
Occurs(seq, e) ==
    IF seq = <<>> THEN 0
    ELSE (IF Head(seq) = e THEN 1 ELSE 0) + Occurs(Tail(seq), e)

\* game.rs 2615-2766: every collected entry runs the Die and the Hurt of
\* its projectile
ContactPasses ==
    /\ c_pc = "collide"
    /\ \E pairs \in {n \in SUBSET {p \in CPairs : p \div 4 \in c_world} :
                        Cardinality(n) <= MaxTouch} :
         \E touch \in [pairs -> TouchPatterns] :
            \E effects \in {on_contact_effects(0, SetToSeq(pairs), touch)} :
               /\ c_touch' = touch
               /\ c_tick' = [p \in CPairs |-> Occurs(effects, p)]
               /\ c_life' = [p \in CPairs |->
                                c_life[p] + Occurs(effects, p)]
               /\ c_to_die' = [i \in 1..Len(effects) |-> effects[i] \div 4]
    /\ c_pc' = "fire"
    /\ UNCHANGED <<c_world, c_next, notC>>

\* game.rs 2996-3115: the equipment pass may spawn a projectile
SpawnProjectile ==
    /\ c_pc = "fire"
    /\ \E fires \in BOOLEAN :
         IF fires /\ c_next \in CBalls
         THEN c_world' = c_world \cup {c_next} /\ c_next' = c_next + 1
         ELSE UNCHANGED <<c_world, c_next>>
    /\ c_pc' = "despawn"
    /\ UNCHANGED <<c_touch, c_tick, c_life, c_to_die, notC>>

\* The end of the call: the projectiles whose time_to_die has passed join
\* to_die, and every entity of to_die is despawned
DespawnProjectiles ==
    /\ c_pc = "despawn"
    /\ \E expired \in SUBSET c_world :
         c_world' = c_world \ (Range(c_to_die) \cup expired)
    /\ c_to_die' = <<>>
    /\ c_pc' = "collide"
    /\ UNCHANGED <<c_next, c_touch, c_tick, c_life, notC>>

CNext ==
    \/ ContactPasses
    \/ SpawnProjectile
    \/ DespawnProjectiles

----------------------------------------------------------------------------
(* SpecCells: the cells of the Map and the entities with a Position through
   the cell changes of Map::logic (game.rs 2162-2298), the movement, the
   update of player_pos and the despawn loop.  A position is <<x, z>> in
   whole units; the model follows the player's ship and a few of the ships
   that Cell::new spawns. *)

\* game.rs 24
CELL_SIZE == 128

\* game.rs 25
CELL_RADIUS == 2

\* The ships of new cells that are followed
MaxFollowed == 1

Followed == 1..(MaxFollowed + 1)

\* The farthest a call moves the player's ship on either axis, and more than
\* the reach of docking: half a cell
StepLen == CELL_SIZE \div 2

\* game.rs 300-302
cell_to_world(pos) == <<pos[1] * CELL_SIZE, pos[2] * CELL_SIZE>>

\* game.rs 304-310: floor((x + sz / 2) / sz) on both axes
world_to_cell(pos) ==
    <<(2 * pos[1] + CELL_SIZE) \div (2 * CELL_SIZE),
      (2 * pos[2] + CELL_SIZE) \div (2 * CELL_SIZE)>>

Abs(x) == IF x < 0 THEN 0 - x ELSE x

\* game.rs 2171: disp.x.abs() <= CELL_RADIUS && disp.y.abs() <= CELL_RADIUS
in_radius(cell, player_cell) ==
    /\ Abs(cell[1] - player_cell[1]) <= CELL_RADIUS
    /\ Abs(cell[2] - player_cell[2]) <= CELL_RADIUS

\* game.rs 2188-2192: cell_center for dy, then dx, from -CELL_RADIUS to
\* CELL_RADIUS
cell_centers(player_cell) ==
    [k \in 1..((2 * CELL_RADIUS + 1) * (2 * CELL_RADIUS + 1)) |->
       <<player_cell[1] + ((k - 1) % (2 * CELL_RADIUS + 1)) - CELL_RADIUS,
         player_cell[2] + ((k - 1) \div (2 * CELL_RADIUS + 1)) - CELL_RADIUS>>]

\* The entries of a sequence that are in S (keep) or not in S, in order
RECURSIVE Sift(_, _, _)
Sift(seq, S, keep) ==
    IF seq = <<>> THEN <<>>
    ELSE (IF (Head(seq) \in S) = keep THEN <<Head(seq)>> ELSE <<>>)
         \o Sift(Tail(seq), S, keep)

Reverse(seq) == [k \in 1..Len(seq) |-> seq[Len(seq) + 1 - k]]

\* A slip: the centres of the cells are not moved with the player
cell_changesM33(cells, player_pos, reversed) ==
    LET player_cell == world_to_cell(player_pos)
        good_cells == {cells[i] : i \in {j \in DOMAIN cells :
                                           in_radius(cells[j], player_cell)}}
        kept == Sift(cell_centers(player_cell), good_cells, TRUE)
        missing == Sift(cell_centers(player_cell), good_cells, FALSE)
        new_cell_centers == IF reversed THEN Reverse(missing) ELSE missing
    IN [cells |-> kept \o new_cell_centers,
        new |-> {<<c[1] - player_cell[1], c[2] - player_cell[2]>> :
                   c \in Range(new_cell_centers)},
        player_cell |-> player_cell]

\* game.rs 2162-2174, 2188-2209, 2257-2276: the cells kept, the cells made
\* (new_cell_centers as shuffled: in order or reversed) and the centres after
\* the recentring
cell_changes(cells, player_pos, reversed) ==
    LET player_cell == world_to_cell(player_pos)
        good_cells == {cells[i] : i \in {j \in DOMAIN cells :
                                           in_radius(cells[j], player_cell)}}
        kept == Sift(cell_centers(player_cell), good_cells, TRUE)
        missing == Sift(cell_centers(player_cell), good_cells, FALSE)
        new_cell_centers == IF reversed THEN Reverse(missing) ELSE missing
        all == kept \o new_cell_centers
    IN [cells |-> [k \in DOMAIN all |-> <<all[k][1] - player_cell[1],
                                          all[k][2] - player_cell[2]>>],
        new |-> {<<c[1] - player_cell[1], c[2] - player_cell[2]>> :
                   c \in Range(new_cell_centers)},
        player_cell |-> player_cell]

\* game.rs 2177-2186: the entities whose cell is out of the radius
out_of_radius(world, pos, player_cell) ==
    {id \in world : ~in_radius(world_to_cell(pos[id]), player_cell)}

\* Map::new, game.rs 1990-2075: the cells around the origin, the player's
\* ship at the origin; the variables of SpecCells while another
\* specification runs
MIdle ==
    /\ m_pc = "cells"
    /\ m_cells = cell_centers(<<0, 0>>)
    /\ m_world = {1}
    /\ m_pos = [id \in Followed |-> <<0, 0>>]
    /\ m_player = 1
    /\ m_player_pos = <<0, 0>>
    /\ m_to_die = {}
    /\ m_next = 2
    /\ m_before = {}
    /\ m_cell = <<0, 0>>
    /\ m_new = {}

\* game.rs 2162-2298: the cell changes of a call.  Cell::new (195-278) puts
\* a ship into every new cell; one of them at most is followed, at the
\* centre of its cell
CellChanges33 ==
    /\ m_pc = "cells"
    /\ \E reversed \in BOOLEAN :
         \E r \in {cell_changes(m_cells, m_player_pos, reversed)} :
            LET offt == cell_to_world(r.player_cell)
            IN /\ m_cells' = r.cells
               /\ m_new' = r.new
               /\ m_cell' = r.player_cell
               /\ m_to_die' = out_of_radius(m_world, m_pos, r.player_cell)
               /\ m_player_pos' = <<m_player_pos[1] - offt[1],
                                    m_player_pos[2] - offt[2]>>
               /\ \E spawn \in {{}} \cup {{c} : c \in {n \in r.new :
                                            m_next \in Followed /\ n # <<0, 0>>}} :
                    /\ m_world' = m_world \cup {m_next : c \in spawn}
                    /\ m_next' = IF spawn = {} THEN m_next ELSE m_next + 1
                    /\ m_pos' = [id \in Followed |->
                                   IF id \in m_world
                                   THEN <<m_pos[id][1] - offt[1],
                                          m_pos[id][2] - offt[2]>>
                                   ELSE IF id = m_next /\ spawn # {}
                                   THEN cell_to_world(CHOOSE c \in spawn : TRUE)
                                   ELSE m_pos[id]]
    /\ m_before' = Range(m_cells)
    /\ m_pc' = "physics"
    /\ UNCHANGED <<m_player, notM>>

\* game.rs 2335-2338: pos += dt * vel; the player's ship moves, by a step or
\* not, on either axis
Movement ==
    /\ m_pc = "physics"
    /\ \E dx \in {0 - StepLen, 0, StepLen}, dz \in {0 - StepLen, 0, StepLen} :
         m_pos' = [m_pos EXCEPT ![m_player] = <<@[1] + dx, @[2] + dz>>]
    /\ m_pc' = "player"
    /\ UNCHANGED <<m_cells, m_world, m_player, m_player_pos, m_to_die, m_next,
                   m_before, m_cell, m_new, notM>>

\* game.rs 3136-3140
UpdatePlayerPos ==
    /\ m_pc = "player"
    /\ m_player_pos' = IF m_player \in m_world THEN m_pos[m_player]
                       ELSE m_player_pos
    /\ m_pc' = "dead"
    /\ UNCHANGED <<m_cells, m_world, m_pos, m_player, m_to_die, m_next,
                   m_before, m_cell, m_new, notM>>

\* game.rs 3443-3457
RemoveFar ==
    /\ m_pc = "dead"
    /\ m_world' = m_world \ m_to_die
    /\ m_pos' = [id \in Followed |->
                   IF id \in m_to_die THEN <<0, 0>> ELSE m_pos[id]]
    /\ m_to_die' = {}
    /\ m_pc' = "cells"
    /\ UNCHANGED <<m_cells, m_player, m_player_pos, m_next, m_before,
                   m_cell, m_new, notM>>

\* game.rs 1330-1343: between two calls the player goes over to a ship
\* that is within reach
SwitchShips33 ==
    /\ m_pc = "cells"
    /\ \E id \in m_world \ {m_player} :
         /\ Abs(m_pos[id][1] - m_pos[m_player][1]) <= StepLen
         /\ Abs(m_pos[id][2] - m_pos[m_player][2]) <= StepLen
         /\ m_player' = id
    /\ UNCHANGED <<m_pc, m_cells, m_world, m_pos, m_player_pos, m_to_die,
                   m_next, m_before, m_cell, m_new, notM>>

MNext ==
    \/ CellChanges33
    \/ Movement
    \/ UpdatePlayerPos
    \/ RemoveFar
    \/ SwitchShips33

----------------------------------------------------------------------------
(* SpecExpiry: the entities with a TimeToDie (projectiles and muzzle
   flashes) through the timer ticks of the main loop.  Time is counted in
   ticks: GameState::time is tick * DT, and a deadline of time + s seconds
   is passed at the first tick above tick + s / DT. *)

\* 1 / DT: the timer ticks of a second
TicksPerSecond == 5

\* The timer ticks of a run that advance GameState::tick
MaxClock == 7

\* The entities with a TimeToDie of a run
MaxExpiring == 4

Expiring == 1..MaxExpiring

\* game_state.rs 370-373, in ticks
state_time(tick) == tick

\* game.rs 1766-1768 and 1799-1801: time_to_die of a projectile is
\* state.time() + 1., of a muzzle flash state.time() + 0.2; a tick is above
\* the deadline exactly if it is above its whole part
time_to_die(kind, tick) ==
    IF kind = "projectile" THEN state_time(tick) + TicksPerSecond
    ELSE state_time(tick) + TicksPerSecond \div 5

\* A slip: the deadline is compared with the time of the call before
expiredM34(world, ent, tick) ==
    {id \in world : state_time(tick) - 1 > ent[id].time_to_die}

\* game.rs 3434-3441: state.time() > time_to_die.time_to_die
expired(world, ent, tick) ==
    {id \in world : state_time(tick) > ent[id].time_to_die}

NoExpiring == [kind |-> "none", born |-> 0, time_to_die |-> 0]

\* Game::new: no shot has been fired; the variables of SpecExpiry while
\* another specification runs
TIdle ==
    /\ t_tick = 0
    /\ t_paused = FALSE
    /\ t_world = {}
    /\ t_ent = [id \in Expiring |-> NoExpiring]
    /\ t_next = 1
    /\ t_last = 0 - 1
    /\ t_gone = {}

\* main.rs 191-230 with Game::logic (game.rs 633-680) and Map::logic: a
\* timer tick while no subscreen is open.  The equipment pass may fire a
\* weapon (game.rs 3078-3100: a projectile and a muzzle flash are spawned),
\* a contact effect or the cell changes may have put a projectile into
\* to_die, the time to die pass adds the entities past their deadline, the
\* despawn loop removes them; then the tick advances
TimerTick ==
    /\ ~t_paused
    /\ t_tick < MaxClock
    /\ \E fire \in {f \in BOOLEAN : f => t_next + 1 \in Expiring},
          hit \in {{}} \cup {{id} : id \in {e \in t_world :
                                             t_ent[e].kind = "projectile"}} :
         \E ent \in {[id \in Expiring |->
                        IF fire /\ id = t_next
                        THEN [kind |-> "projectile", born |-> t_tick,
                              time_to_die |-> time_to_die("projectile", t_tick)]
                        ELSE IF fire /\ id = t_next + 1
                        THEN [kind |-> "flash", born |-> t_tick,
                              time_to_die |-> time_to_die("flash", t_tick)]
                        ELSE t_ent[id]]} :
            \E world \in {IF fire THEN t_world \cup {t_next, t_next + 1}
                          ELSE t_world} :
               \E late \in {expired(world, ent, t_tick)} :
                  /\ t_ent' = ent
                  /\ t_world' = world \ (hit \cup late)
                  /\ t_gone' = t_gone \cup
                                 {[kind |-> ent[id].kind, born |-> ent[id].born,
                                   at |-> t_tick] : id \in late \ hit}
                  /\ t_next' = IF fire THEN t_next + 2 ELSE t_next
    /\ t_last' = t_tick
    /\ t_tick' = t_tick + 1
    /\ UNCHANGED <<t_paused, notT>>

\* game.rs 753-760: the in-game menu opens; Game::logic does nothing and
\* the tick stands still while it is open
InGameMenu ==
    /\ ~t_paused
    /\ t_paused' = TRUE
    /\ UNCHANGED <<t_tick, t_world, t_ent, t_next, t_last, t_gone, notT>>

\* game.rs 780-791: the last subscreen closes
MenuBack ==
    /\ t_paused
    /\ t_paused' = FALSE
    /\ UNCHANGED <<t_tick, t_world, t_ent, t_next, t_last, t_gone, notT>>

TNext ==
    \/ TimerTick
    \/ InGameMenu
    \/ MenuBack

----------------------------------------------------------------------------
(* SpecHud: the repair buttons of the HUD (game.rs 326-452) *)

\* Clicks on HUD buttons in one run
MaxClicks == 3

\* HUD::new pushes 7 buttons: the four armor segments, hull, infirmary, sails
Buttons == 0..6

HudShips == {1, 2}

\* HUD::new
HUD_new == [on |-> [i \in Buttons |-> FALSE], toggled |-> <<>>]

\* Button::input (game.rs 158-191) of a toggle button: a left click inside
\* the button flips `on`
Button_input(on, clicked) == IF clicked THEN ~on ELSE on

\* game.rs 424-432: the loop over the buttons, from button i on
RECURSIVE input_loop(_, _, _)
input_loop(hud, i, hit) ==
    IF i \notin Buttons THEN hud
    ELSE LET old_on == hud.on[i]
             on == Button_input(old_on, i \in hit)
         IN input_loop([on |-> [hud.on EXCEPT ![i] = on],
                        toggled |-> IF ~old_on /\ on
                                    THEN Append(hud.toggled, i)
                                    ELSE hud.toggled],
                       i + 1, hit)

\* Vec::retain
RECURSIVE retain(_, _)
retain(toggled, on) ==
    IF toggled = <<>> THEN <<>>
    ELSE IF on[Head(toggled)]
    THEN <<Head(toggled)>> \o retain(Tail(toggled), on)
    ELSE retain(Tail(toggled), on)

\* game.rs 421-436: HUD::input; hit is the set of buttons the click is in
HUD_input(hud, hit) ==
    LET h == input_loop(hud, 0, hit)
    IN [on |-> h.on, toggled |-> retain(h.toggled, h.on)]

\* A slip: the cap keeps the first max_repair entries
HUD_logicM37(hud) ==
    LET max_repair == 2
        n == Len(hud.toggled)
    IN IF n > max_repair
       THEN [on |-> [i \in Buttons |->
                       IF \E k \in (max_repair + 1)..n : hud.toggled[k] = i
                       THEN FALSE ELSE hud.on[i]],
             toggled |-> SubSeq(hud.toggled, 1, max_repair)]
       ELSE hud

\* game.rs 438-452: HUD::logic, the HUD it leaves (repair_boost is a clone
\* of its toggled)
HUD_logic(hud) ==
    LET max_repair == 2
        n == Len(hud.toggled)
    IN IF n > max_repair
       THEN [on |-> [i \in Buttons |->
                       IF \E k \in 1..(n - max_repair) : hud.toggled[k] = i
                       THEN FALSE ELSE hud.on[i]],
             toggled |-> SubSeq(hud.toggled, n - max_repair + 1, n)]
       ELSE hud

\* Game::new: HUD::new, and ShipState::new for the two ships; the variables
\* of SpecHud while another specification runs
UIdle ==
    /\ u_pc = "input"
    /\ u_on = HUD_new.on
    /\ u_toggled = HUD_new.toggled
    /\ u_boost = [s \in HudShips |-> <<>>]
    /\ u_player = 1
    /\ u_clicks = 0
    /\ u_stamp = [i \in Buttons |-> 0]
    /\ u_dropped = {}

\* Game::input (game.rs 682-691) on a left click inside HUD button i; the
\* buttons do not overlap
HudClick ==
    /\ u_clicks < MaxClicks
    /\ \E i \in Buttons :
         \E h \in {HUD_input([on |-> u_on, toggled |-> u_toggled], {i})} :
           /\ u_on' = h.on
           /\ u_toggled' = h.toggled
           /\ u_stamp' = [u_stamp EXCEPT
                            ![i] = IF h.on[i] THEN u_clicks + 1 ELSE 0]
    /\ u_clicks' = u_clicks + 1
    /\ u_pc' = "input"
    /\ UNCHANGED <<u_boost, u_player, u_dropped, notU>>

\* Game::input on any other event: no button is hit
HudOtherEvent ==
    /\ u_pc = "logic"
    /\ \E h \in {HUD_input([on |-> u_on, toggled |-> u_toggled], {})} :
         /\ u_on' = h.on
         /\ u_toggled' = h.toggled
    /\ u_pc' = "input"
    /\ UNCHANGED <<u_boost, u_player, u_clicks, u_stamp, u_dropped, notU>>

\* Game::logic (game.rs 633-680) with no subscreen open: the equipment
\* screen may switch ships, then HUD::logic caps the toggles and writes the
\* player's repair_boost, then Map::logic runs its repair pass
HudGameLogic ==
    /\ \E switch \in BOOLEAN :
         \E player \in {IF switch THEN 3 - u_player ELSE u_player},
            h \in {HUD_logic([on |-> u_on, toggled |-> u_toggled])} :
           /\ u_player' = player
           /\ u_on' = h.on
           /\ u_toggled' = h.toggled
           /\ u_boost' = [u_boost EXCEPT ![player] = h.toggled]
           /\ u_dropped' = {i \in Buttons : u_on[i] /\ ~h.on[i]}
    /\ u_pc' = "logic"
    /\ UNCHANGED <<u_clicks, u_stamp, notU>>

\* Game::change_buffers (game.rs 847-849): a new HUD
HudChangeBuffers ==
    /\ u_toggled # <<>>
    /\ u_on' = HUD_new.on
    /\ u_toggled' = HUD_new.toggled
    /\ u_stamp' = [i \in Buttons |-> 0]
    /\ u_pc' = "input"
    /\ UNCHANGED <<u_boost, u_player, u_clicks, u_dropped, notU>>

UNext ==
    \/ HudClick
    \/ HudOtherEvent
    \/ HudGameLogic
    \/ HudChangeBuffers

----------------------------------------------------------------------------
(* SpecLoop: the main loop of real_main (main.rs 90-251) *)

\* Events waiting in the queue
MaxQueue == 13

\* GameState::tick in one run
MaxLoopTicks == 12

\* A slip: one more step is let through
skip_tickM38(logics_without_draw) == logics_without_draw > 11

\* main.rs 193: the cap on the timer ticks handled without a render
skip_tick(logics_without_draw) == logics_without_draw > 10

\* main.rs 90-96: draw is set, the menu is shown, no logic has run; the
\* variables of SpecLoop while another specification runs
RIdle ==
    /\ r_pc = "top"
    /\ r_draw = TRUE
    /\ r_count = 0
    /\ r_queue = 0
    /\ r_tick = 0
    /\ r_paused = FALSE
    /\ r_screen = "Menu"
    /\ r_logics = 0
    /\ r_skipped = FALSE

\* The timer or an input device puts an event into the queue
EventArrives ==
    /\ r_queue < MaxQueue
    /\ r_queue' = r_queue + 1
    /\ UNCHANGED <<r_pc, r_draw, r_count, r_tick, r_paused, r_screen,
                   r_logics, r_skipped, notR>>

\* main.rs 105-161: the head of the loop, a render when a draw is pending
\* and the queue is empty
LoopTop ==
    /\ r_pc = "top"
    /\ IF r_draw /\ r_queue = 0
       THEN /\ r_count' = 0
            /\ r_draw' = FALSE
            /\ r_logics' = 0
       ELSE UNCHANGED <<r_count, r_draw, r_logics>>
    /\ r_pc' = "wait"
    /\ UNCHANGED <<r_queue, r_tick, r_paused, r_screen, r_skipped, notR>>

\* main.rs 163-250: wait_for_event returns the event at the head of the
\* queue.  input_next is the next screen the input handler of the screen
\* asks for ("" for None), logic_next the one Game::logic asks for, pause
\* what the handler leaves in GameState::paused on an input event.
HandleEvent ==
    /\ r_pc = "wait"
    /\ r_queue > 0
    /\ r_tick < MaxLoopTicks
    /\ r_queue' = r_queue - 1
    /\ \E kind \in {"TimerTick", "Other"}, input_next \in {"", "Menu", "Game"},
          logic_next \in {"", "Menu"}, pause \in BOOLEAN :
         IF kind = "TimerTick"
         THEN /\ pause = r_paused
              /\ IF skip_tick(r_count)
                 THEN /\ input_next = ""
                      /\ logic_next = ""
                      /\ r_skipped' = TRUE
                      /\ UNCHANGED <<r_draw, r_count, r_tick, r_paused,
                                     r_screen, r_logics>>
                 ELSE LET run == input_next = "" /\ r_screen = "Game"
                          next_screen == IF run THEN logic_next ELSE input_next
                      IN /\ ~run => logic_next = ""
                         /\ r_logics' = IF run THEN r_logics + 1 ELSE r_logics
                         /\ r_count' = r_count + 1
                         /\ r_tick' = IF r_paused THEN r_tick ELSE r_tick + 1
                         /\ r_draw' = TRUE
                         /\ r_screen' = IF next_screen = "" THEN r_screen
                                        ELSE next_screen
                         /\ r_skipped' = FALSE
                         /\ UNCHANGED r_paused
         ELSE /\ logic_next = ""
              /\ r_screen = "Menu" => pause = r_paused
              /\ r_paused' = pause
              /\ r_screen' = IF input_next = "" THEN r_screen ELSE input_next
              /\ r_skipped' = FALSE
              /\ UNCHANGED <<r_draw, r_count, r_tick, r_logics>>
    /\ r_pc' = "top"
    /\ UNCHANGED notR

RNext ==
    \/ EventArrives
    \/ LoopTop
    \/ HandleEvent

----------------------------------------------------------------------------
(* SpecDock: the orders of the player in Map::logic (game.rs 2770-2924)
   with three ships: the player's, a ship of the player's team and the
   Pirate boss *)

DockShips == 1..3

\* Waypoint markers of the player alive at once
MaxMarkers == 1

\* Solid::size of the ships, and the distances between the player and the
\* target: around 2 + both sizes
DockSize == [s \in DockShips |-> 1]

DockDists == {3, 4}

DockBoss == [s \in DockShips |-> s = 3]

NoReq == [want_dock |-> FALSE, alive |-> FALSE, player |-> 0, target |-> 0,
          dist |-> 0, way |-> <<>>, marker |-> 0, dock |-> 0,
          team |-> [s \in DockShips |-> "Neutral"]]

\* A slip: no team test, any ship near enough is docked with
dock_orderM39(team, player, target, dist, size, player_size, way, to_die) ==
    IF target = 0
    THEN [dock |-> 0, way |-> way, to_die |-> to_die, move_to |-> FALSE]
    ELSE IF dist < 2 + size + player_size
    THEN LET c == Target_clear(way, to_die)
         IN [dock |-> target, way |-> c.way, to_die |-> c.to_die,
             move_to |-> FALSE]
    ELSE [dock |-> 0, way |-> way, to_die |-> to_die, move_to |-> TRUE]

\* game.rs 2866-2905: the Dock order of a living player on a target other
\* than the player; dist is the length of player_pos.zx() - pos.zx()
dock_order(team, player, target, dist, size, player_size, way, to_die) ==
    IF target = 0
    THEN [dock |-> 0, way |-> way, to_die |-> to_die, move_to |-> FALSE]
    ELSE IF dock_with(team[target], team[player])
    THEN IF dist < 2 + size + player_size
         THEN LET c == Target_clear(way, to_die)
              IN [dock |-> target, way |-> c.way, to_die |-> c.to_die,
                  move_to |-> FALSE]
         ELSE [dock |-> 0, way |-> way, to_die |-> to_die, move_to |-> TRUE]
    ELSE [dock |-> 0, way |-> way, to_die |-> to_die, move_to |-> FALSE]

\* game.rs 2811-2838: the Move order of a living player; marker is the
\* entity make_target spawned
move_order(want_queue, marker, way, to_die) ==
    LET c == IF want_queue THEN [way |-> way, to_die |-> to_die]
             ELSE Target_clear(way, to_die)
    IN [way |-> Append(c.way, marker), to_die |-> c.to_die]

\* game.rs 2770-2924: the orders of one Map::logic call.  select is the
\* ship under the mouse (0 for none), marker the entity make_target would
\* spawn.
player_orders(team, player_alive, player, dock, target_entity, way, want_move, want_queue, want_dock, select, dist, marker) ==
    LET target == IF want_dock /\ select # 0 /\ select # player
                  THEN select ELSE target_entity
        moving == want_move /\ player_alive
        m == IF moving THEN move_order(want_queue, marker, way, <<>>)
             ELSE [way |-> way, to_die |-> <<>>]
        d == IF want_dock /\ player_alive /\ target # player
             THEN dock_order(team, player, target, dist, DockSize[target],
                             DockSize[player], m.way, m.to_die)
             ELSE [dock |-> IF moving THEN 0 ELSE dock, way |-> m.way,
                   to_die |-> m.to_die, move_to |-> FALSE]
    IN [target |-> target, dock |-> d.dock, way |-> d.way,
        to_die |-> d.to_die, move_to |-> d.move_to,
        marker |-> IF moving THEN marker ELSE 0]

\* Map::new: the player's ship, a ship of the player's team and the boss;
\* the variables of SpecDock while another specification runs
KIdle ==
    /\ k_last = "none"
    /\ k_team = [s \in DockShips |-> IF s = 3 THEN "Pirate" ELSE "English"]
    /\ k_hull = [s \in DockShips |-> TRUE]
    /\ k_crew = [s \in DockShips |-> TRUE]
    /\ k_player = 1
    /\ k_dock = 0
    /\ k_target = 0
    /\ k_way = [s \in DockShips |-> <<>>]
    /\ k_to_die = <<>>
    /\ k_req = NoReq

\* Map::logic: the Hurt effects (game.rs 2614-2687) that leave the ships
\* in `hit` without crew or without hull, the orders of the player (game.rs
\* 2770-2924) and the death pass (game.rs 3371-3399)
DockMapLogic ==
    /\ \E hit \in {{}} \cup {{s} : s \in DockShips}, sinks \in BOOLEAN,
          want_move \in BOOLEAN, want_queue \in BOOLEAN,
          want_dock \in BOOLEAN, select \in {0} \cup DockShips,
          dist \in DockDists :
         /\ (hit = {}) => ~sinks
         /\ ~want_move => ~want_queue
         /\ ~want_dock => (select = 0 /\ dist = 3)
         /\ \E hull \in {[s \in DockShips |-> k_hull[s] /\ ~(s \in hit /\ sinks)]},
               crew \in {[s \in DockShips |-> k_crew[s] /\ ~(s \in hit /\ ~sinks)]},
               marker \in {CHOOSE m \in 1..(MaxMarkers + 1) :
                             \A k \in 1..Len(k_way[k_player]) :
                                k_way[k_player][k] # m} :
              \E r \in {player_orders(k_team, hull[k_player] /\ crew[k_player],
                                      k_player, k_dock, k_target,
                                      k_way[k_player], want_move, want_queue,
                                      want_dock, select, dist, marker)} :
                 /\ Len(r.way) <= MaxMarkers
                 /\ k_hull' = hull
                 /\ k_crew' = crew
                 /\ k_target' = r.target
                 /\ k_dock' = r.dock
                 /\ k_to_die' = r.to_die
                 /\ k_way' = [k_way EXCEPT ![k_player] = r.way]
                 /\ k_team' = [s \in DockShips |->
                                 IF hull[s] /\ crew[s] THEN k_team[s]
                                 ELSE "Neutral"]
                 /\ k_req' = [want_dock |-> want_dock,
                              alive |-> hull[k_player] /\ crew[k_player],
                              player |-> k_player, target |-> r.target,
                              dist |-> dist, way |-> k_way[k_player],
                              marker |-> r.marker, dock |-> k_dock,
                              team |-> k_team]
    /\ k_last' = "input"
    /\ UNCHANGED <<k_player, notK>>

\* EquipmentScreen::logic (game.rs 995-1012, 1258-1342): the switch button
\* exists when the player is docked with a ship of another team that has
\* hull left and is no boss; crew and team change sides, a boss ship takes its crew to the
\* Pirates, and the ship left behind becomes the dock_entity
DockSwitchShips ==
    /\ k_dock # 0
    /\ k_hull[k_dock]
    /\ k_team[k_dock] # k_team[k_player]
    /\ ~DockBoss[k_player]
    /\ k_crew' = [k_crew EXCEPT ![k_player] = k_crew[k_dock],
                                ![k_dock] = k_crew[k_player]]
    /\ k_team' = [k_team EXCEPT ![k_player] = k_team[k_dock],
                                ![k_dock] = IF DockBoss[k_dock] THEN "Pirate"
                                            ELSE k_team[k_player]]
    /\ k_player' = k_dock
    /\ k_dock' = k_player
    /\ k_target' = IF k_target # 0 THEN k_player ELSE 0
    /\ k_last' = "other"
    /\ UNCHANGED <<k_hull, k_way, k_to_die, k_req, notK>>

\* Game::logic (game.rs 645-654) and Game::input (game.rs 696-704, 727-734):
\* the trade screen is closed and the docking ends
DockCloseTrade ==
    /\ k_dock # 0
    /\ k_dock' = 0
    /\ k_last' = "other"
    /\ UNCHANGED <<k_team, k_hull, k_crew, k_player, k_target, k_way,
                   k_to_die, k_req, notK>>

KNext ==
    \/ DockMapLogic
    \/ DockSwitchShips
    \/ DockCloseTrade

----------------------------------------------------------------------------
(* SpecTrade: the trade screen (game.rs 993-1381) of a player docked with
   a ship of its team; each ship has two inventory slots *)

\* components.rs 1158: the price of every generated item
ITEM_PRICE == 10

\* game.rs 27
CREW_COST == 20

\* The money the player comes to the trade screen with
StartMoney == {0, 10, 30}

TradeSlots == 1..2

TradeItems == 1..3

\* dock_state.level of the ship crew is recruited from
TradeLevels == 1..2

NoDrag == [i |-> 0, idx |-> 0, item |-> 0]

item_price(item) == ITEM_PRICE

\* The pointer is over no slot
NoHover == <<2, 0>>

Hovers == {NoHover} \cup ({0, 1} \X TradeSlots)

\* game.rs 969-990: do_trade, for a player of team English
do_trade(dock_team) == trade_with(dock_team, "English")

\* game.rs 1196-1208: an item goes back to the slot it was dragged from; an
\* item that goes back to the partner is refunded when do_trade
put_back(st, old, trade) ==
    IF old = NoDrag THEN st
    ELSE IF old.idx = 1
    THEN [st EXCEPT !.slots[1][old.i] = old.item]
    ELSE [st EXCEPT !.slots[0][old.i] = old.item,
                    !.money = IF trade THEN st.money + item_price(old.item)
                              ELSE st.money]

\* game.rs 1083-1121: the button is down over slot i of ship idx and nothing
\* is dragged
grab_item(st, idx, i, trade) ==
    LET item == st.slots[idx][i]
        charge == idx = 0 /\ trade /\ item # 0
        refused == charge /\ item_price(item) > st.money
    IN IF refused
       THEN [st EXCEPT !.msg = ~st.grab_attempted,
                       !.grab_attempted = TRUE,
                       !.ev = "grab_refused"]
       ELSE IF item = 0 THEN st
       ELSE [st EXCEPT !.money = IF charge THEN st.money - item_price(item)
                                 ELSE st.money,
                       !.paid = IF charge THEN item_price(item) ELSE 0,
                       !.dragged = [i |-> i, idx |-> idx, item |-> item],
                       !.slots[idx][i] = 0,
                       !.ev = "grab"]

\* game.rs 1123-1182: the button is up over slot i of ship idx and an item
\* is dragged; allowed is false for a weapon over a slot that takes none.
\* The record carries the item that has to go back in `old`.
drop_item(st, idx, i, trade, allowed) ==
    LET occupant == st.slots[idx][i]
        charge == occupant # 0 /\ idx = 0 /\ trade
        refused == charge /\ ~(st.money >= item_price(occupant))
        gone == [st EXCEPT !.dragged = NoDrag]
    IN IF ~allowed THEN [st |-> [gone EXCEPT !.ev = "return"], old |-> st.dragged]
       ELSE IF refused
       THEN [st |-> [gone EXCEPT !.msg = TRUE, !.ev = "drop_refused"],
             old |-> st.dragged]
       ELSE [st |-> [gone EXCEPT
                       !.money = (IF charge
                                  THEN st.money - item_price(occupant)
                                  ELSE st.money)
                                 + (IF idx = 0 /\ trade
                                    THEN item_price(st.dragged.item) ELSE 0),
                       !.slots[idx][i] = st.dragged.item,
                       !.ev = "drop"],
             old |-> IF occupant = 0 THEN NoDrag
                     ELSE [i |-> st.dragged.i, idx |-> st.dragged.idx,
                           item |-> occupant]]

\* The first free slot of a ship, 0 if none
free_slot(slots) ==
    IF \E i \in TradeSlots : slots[i] = 0
    THEN CHOOSE i \in TradeSlots :
           slots[i] = 0 /\ \A j \in TradeSlots : slots[j] = 0 => i <= j
    ELSE 0

\* game.rs 1210-1250: a grab with Ctrl down moves the item to the first free
\* inventory slot of the other ship
fast_move(st, trade) ==
    IF st.dragged = NoDrag THEN st
    ELSE LET other == 1 - st.dragged.idx
             i == free_slot(st.slots[other])
         IN IF i = 0 THEN st
            ELSE [st EXCEPT !.slots[other][i] = st.dragged.item,
                            !.dragged = NoDrag,
                            !.money = IF st.dragged.idx = 1 /\ trade
                                      THEN st.money
                                           + item_price(st.dragged.item)
                                      ELSE st.money,
                            !.ev = "fast_move"]

\* game.rs 1294-1328: the recruit button was pressed; only the money changes
\* here
recruit(st, level, crew_short, no_room) ==
    IF crew_short THEN st
    ELSE IF st.money < level * CREW_COST
    THEN [st EXCEPT !.msg = TRUE, !.ev = "recruit_refused"]
    ELSE IF no_room THEN st
    ELSE [st EXCEPT !.money = st.money - level * CREW_COST, !.ev = "recruit"]

\* game.rs 1062-1250: the slots of one EquipmentScreen::logic call
equipment_slots(st, hover, trade, ctrl, allowed) ==
    LET idx == hover[1]
        i == hover[2]
        over == hover # NoHover
        grabbing == over /\ st.down /\ st.dragged = NoDrag
        dropping == over /\ ~st.down /\ st.dragged # NoDrag
        s1 == IF grabbing THEN [st |-> grab_item(st, idx, i, trade),
                                old |-> NoDrag]
              ELSE IF dropping THEN drop_item(st, idx, i, trade, allowed)
              ELSE [st |-> st, old |-> NoDrag]
        s2 == IF ~st.down /\ s1.st.dragged # NoDrag
              THEN [st |-> [s1.st EXCEPT !.dragged = NoDrag, !.ev = "return"],
                    old |-> s1.st.dragged]
              ELSE s1
        s3 == put_back(s2.st, s2.old, trade)
        s4 == IF grabbing /\ s1.st.ev = "grab" /\ ctrl
              THEN fast_move(s3, trade) ELSE s3
    IN [s4 EXCEPT !.paid = IF s4.dragged = NoDrag THEN 0 ELSE s4.paid]

\* The trade screen has just opened: the player has one item, the partner
\* two; the variables of SpecTrade while another specification runs
BIdle ==
    /\ b_money = 30
    /\ b_team = "English"
    /\ b_slots = [idx \in {0, 1} |->
                    [i \in TradeSlots |->
                       IF idx = 1 THEN (IF i = 1 THEN 1 ELSE 0) ELSE i + 1]]
    /\ b_dragged = NoDrag
    /\ b_down = FALSE
    /\ b_grab_attempted = FALSE
    /\ b_paid = 0
    /\ b_ev = "none"
    /\ b_msg = FALSE

\* EquipmentScreen::input (game.rs 933-939): the left button goes down over
\* the screen
TradeMouseDown ==
    /\ ~b_down
    /\ b_down' = TRUE
    /\ b_ev' = "none"
    /\ b_msg' = FALSE
    /\ UNCHANGED <<b_money, b_team, b_slots, b_dragged, b_grab_attempted,
                   b_paid, notB>>

\* EquipmentScreen::input (game.rs 941-945): the left button goes up
TradeMouseUp ==
    /\ b_down
    /\ b_down' = FALSE
    /\ b_grab_attempted' = FALSE
    /\ b_ev' = "none"
    /\ b_msg' = FALSE
    /\ UNCHANGED <<b_money, b_team, b_slots, b_dragged, b_paid, notB>>

\* EquipmentScreen::logic (game.rs 993-1342): the slots, then the recruit
\* button
TradeLogic ==
    /\ \E hover \in Hovers, ctrl \in BOOLEAN, allowed \in BOOLEAN,
          press \in BOOLEAN, level \in TradeLevels, crew_short \in BOOLEAN,
          no_room \in BOOLEAN :
         /\ press => (hover = NoHover /\ b_team = "English")
         /\ ~press => (level = 1 /\ ~crew_short /\ ~no_room)
         /\ (hover = NoHover \/ b_down) => allowed
         /\ (hover = NoHover \/ ~b_down) => ~ctrl
         /\ \E s \in {equipment_slots(
                        [money |-> b_money, slots |-> b_slots,
                         dragged |-> b_dragged, down |-> b_down,
                         grab_attempted |-> b_grab_attempted,
                         paid |-> b_paid, ev |-> "none", msg |-> FALSE],
                        hover, do_trade(b_team), ctrl, allowed)} :
              \E r \in {IF press THEN recruit(s, level, crew_short, no_room)
                        ELSE s} :
                 /\ b_money' = r.money
                 /\ b_slots' = r.slots
                 /\ b_dragged' = r.dragged
                 /\ b_grab_attempted' = r.grab_attempted
                 /\ b_paid' = r.paid
                 /\ b_ev' = r.ev
                 /\ b_msg' = r.msg
    /\ UNCHANGED <<b_team, b_down, notB>>

\* EquipmentScreen::finish_trade (game.rs 1346-1381) when the screen is
\* closed; the player docks again later
TradeFinish ==
    /\ \E r \in {put_back([money |-> b_money, slots |-> b_slots],
                          b_dragged, do_trade(b_team))} :
         /\ b_money' = r.money
         /\ b_slots' = r.slots
    /\ b_dragged' = NoDrag
    /\ b_paid' = 0
    /\ b_ev' = "finish"
    /\ b_msg' = FALSE
    /\ UNCHANGED <<b_team, b_down, b_grab_attempted, notB>>

\* Map::logic, Hurt effects and the death pass (game.rs 2614-2687,
\* 3371-3399): the partner is left without crew or hull and becomes Neutral
TradePartnerDisabled ==
    /\ b_team # "Neutral"
    /\ b_team' = "Neutral"
    /\ b_ev' = "none"
    /\ b_msg' = FALSE
    /\ UNCHANGED <<b_money, b_slots, b_dragged, b_down, b_grab_attempted,
                   b_paid, notB>>

BNext ==
    \/ TradeMouseDown
    \/ TradeMouseUp
    \/ TradeLogic
    \/ TradeFinish
    \/ TradePartnerDisabled

InitDamage == DInit /\ SIdle /\ WIdle /\ AIdle /\ EIdle /\ LIdle /\ IIdle /\ NIdle /\ FIdle /\ HIdle /\ PIdle /\ CIdle /\ MIdle /\ TIdle /\ UIdle /\ RIdle /\ KIdle /\ BIdle

SpecDamage == InitDamage /\ [][DNext]_vars

InitShips == SInit /\ DIdle /\ WIdle /\ AIdle /\ EIdle /\ LIdle /\ IIdle /\ NIdle /\ FIdle /\ HIdle /\ PIdle /\ CIdle /\ MIdle /\ TIdle /\ UIdle /\ RIdle /\ KIdle /\ BIdle

InitWorld == WInit /\ DIdle /\ SIdle /\ AIdle /\ EIdle /\ LIdle /\ IIdle /\ NIdle /\ FIdle /\ HIdle /\ PIdle /\ CIdle /\ MIdle /\ TIdle /\ UIdle /\ RIdle /\ KIdle /\ BIdle

InitAStar == AIdle /\ DIdle /\ SIdle /\ WIdle /\ EIdle /\ LIdle /\ IIdle /\ NIdle /\ FIdle /\ HIdle /\ PIdle /\ CIdle /\ MIdle /\ TIdle /\ UIdle /\ RIdle /\ KIdle /\ BIdle

InitEconomy == EInit /\ DIdle /\ SIdle /\ WIdle /\ AIdle /\ LIdle /\ IIdle /\ NIdle /\ FIdle /\ HIdle /\ PIdle /\ CIdle /\ MIdle /\ TIdle /\ UIdle /\ RIdle /\ KIdle /\ BIdle

InitLevel == LInit /\ DIdle /\ SIdle /\ WIdle /\ AIdle /\ EIdle /\ IIdle /\ NIdle /\ FIdle /\ HIdle /\ PIdle /\ CIdle /\ MIdle /\ TIdle /\ UIdle /\ RIdle /\ KIdle /\ BIdle

SpecLevel == InitLevel /\ [][LNext]_vars

InitItems == IIdle /\ DIdle /\ SIdle /\ WIdle /\ AIdle /\ EIdle /\ LIdle /\ NIdle /\ FIdle /\ HIdle /\ PIdle /\ CIdle /\ MIdle /\ TIdle /\ UIdle /\ RIdle /\ KIdle /\ BIdle

SpecItems == InitItems /\ [][INext]_vars

InitAI == NInit /\ DIdle /\ SIdle /\ WIdle /\ AIdle /\ EIdle /\ LIdle /\ IIdle /\ FIdle /\ HIdle /\ PIdle /\ CIdle /\ MIdle /\ TIdle /\ UIdle /\ RIdle /\ KIdle /\ BIdle

SpecAI == InitAI /\ [][NNext]_vars

SpecEconomy == InitEconomy /\ [][ENext]_vars

SpecAStar == InitAStar /\ [][ANext]_vars

InitAStarCost == AIdle /\ DIdle /\ SIdle /\ WIdle /\ EIdle /\ LIdle /\ IIdle /\ NIdle /\ FIdle /\ HIdle /\ PIdle /\ CIdle /\ MIdle /\ TIdle /\ UIdle /\ RIdle /\ KIdle /\ BIdle

SpecAStarCost == InitAStarCost /\ [][ACostNext]_vars

InitAStarLive == AIdle /\ DIdle /\ SIdle /\ WIdle /\ EIdle /\ LIdle /\ IIdle /\ NIdle /\ FIdle /\ HIdle /\ PIdle /\ CIdle /\ MIdle /\ TIdle /\ UIdle /\ RIdle /\ KIdle /\ BIdle

\* Once begun, a call runs on: one round of the while loop after the other
SpecAStarLive ==
    InitAStarLive /\ [][ALiveNext]_vars /\ WF_vars(SolveStep) /\ WF_vars(SolveEnd)

InitAStarReuse == AIdle /\ DIdle /\ SIdle /\ WIdle /\ EIdle /\ LIdle /\ IIdle /\ NIdle /\ FIdle /\ HIdle /\ PIdle /\ CIdle /\ MIdle /\ TIdle /\ UIdle /\ RIdle /\ KIdle /\ BIdle

SpecAStarReuse == InitAStarReuse /\ [][AReuseNext]_vars

Spec == InitWorld /\ [][WNext]_vars

SpecShips == InitShips /\ [][SNext]_vars

InitFire == FInit /\ AIdle /\ DIdle /\ SIdle /\ WIdle /\ EIdle /\ LIdle /\ IIdle /\ NIdle /\ HIdle /\ PIdle /\ CIdle /\ MIdle /\ TIdle /\ UIdle /\ RIdle /\ KIdle /\ BIdle

SpecFire == InitFire /\ [][FNext]_vars

InitHurt == HInit /\ FIdle /\ AIdle /\ DIdle /\ SIdle /\ WIdle /\ EIdle /\ LIdle /\ IIdle /\ NIdle /\ PIdle /\ CIdle /\ MIdle /\ TIdle /\ UIdle /\ RIdle /\ KIdle /\ BIdle

SpecHurt == InitHurt /\ [][HNext]_vars

InitPause == PInit /\ HIdle /\ FIdle /\ AIdle /\ DIdle /\ SIdle /\ WIdle /\ EIdle /\ LIdle /\ IIdle /\ NIdle /\ CIdle /\ MIdle /\ TIdle /\ UIdle /\ RIdle /\ KIdle /\ BIdle

SpecPause == InitPause /\ [][PNext]_vars

InitContact == CInit /\ PIdle /\ HIdle /\ FIdle /\ AIdle /\ DIdle /\ SIdle /\ WIdle /\ EIdle /\ LIdle /\ IIdle /\ NIdle /\ MIdle /\ TIdle /\ UIdle /\ RIdle /\ KIdle /\ BIdle

SpecContact == InitContact /\ [][CNext]_vars

InitCells == MIdle /\ DIdle /\ SIdle /\ WIdle /\ AIdle /\ EIdle /\ LIdle /\ IIdle /\ NIdle /\ FIdle /\ HIdle /\ PIdle /\ CIdle /\ TIdle /\ UIdle /\ RIdle /\ KIdle /\ BIdle

SpecCells == InitCells /\ [][MNext]_vars

InitExpiry == TIdle /\ DIdle /\ SIdle /\ WIdle /\ AIdle /\ EIdle /\ LIdle /\ IIdle /\ NIdle /\ FIdle /\ HIdle /\ PIdle /\ CIdle /\ MIdle /\ UIdle /\ RIdle /\ KIdle /\ BIdle

SpecExpiry == InitExpiry /\ [][TNext]_vars

----------------------------------------------------------------------------
(* SpecDamage: the claims about ShipState::damage and Team *)

InRange(ss, stats) ==
    /\ 0 <= ss.hull /\ ss.hull <= stats.hull
    /\ 0 <= ss.crew /\ ss.crew <= stats.crew
    /\ 0 <= ss.sails /\ ss.sails <= stats.sails
    /\ 0 <= ss.infirmary /\ ss.infirmary <= stats.infirmary
    /\ \A i \in 1..4 : 0 <= ss.armor[i] /\ ss.armor[i] <= stats.armor[i]

\* C1: after every call of damage on a ship within its ceilings (any payload,
\* direction and random outcome) hull, crew, sails, infirmary and every armor
\* segment are >= 0 and <= their ShipStats ceilings.
C1_DamageClamps == d_pc # "ready" => InRange(d_ship, DStats)

\* C1 witness: a hull hit whose bleed-through exceeds the hull that was left
C1_Witness ==
    /\ d_pc = "done"
    /\ d_report.damaged
    /\ ~d_rnd.sail
    /\ d_pre.hull = 7
    /\ d_ship.hull = 0

C6_SameTeamUnchanged ==
    (d_pc # "ready" /\ d_dmg.team = d_pre.team) =>
        /\ d_pc = "done"
        /\ d_ship = d_pre
        /\ d_report = NoReport

\* C6 witness: a same-team call on a sound ship whose draws would have been a
\* critical hull hit on its crew
C6_Witness ==
    /\ d_pc = "done"
    /\ d_dmg.team = d_pre.team
    /\ d_rnd.crit
    /\ ~d_rnd.sail
    /\ d_rnd.internal = 1
    /\ d_pre.hull > 0
    /\ d_pre.crew > 0

\* C7: for the teams a, b of every call: is_enemy is symmetric, false when
\* either side is Neutral, and can_damage(a, b) is a # b.
C7_TeamRelations ==
    LET a == d_dmg.team
        b == d_pre.team
    IN /\ a \in Teams /\ b \in Teams
       /\ is_enemy(a, b) = is_enemy(b, a)
       /\ (a = "Neutral" \/ b = "Neutral") => ~is_enemy(a, b)
       /\ can_damage(a, b) = (a # b)

\* C7 witness: an English payload damages a Neutral ship it is no enemy of
C7_Witness ==
    /\ d_pc = "done"
    /\ d_dmg.team = "English"
    /\ d_pre.team = "Neutral"
    /\ d_report.damaged
    /\ ~is_enemy(d_dmg.team, d_pre.team)
    /\ ~is_enemy(d_pre.team, d_dmg.team)

\* The impact direction as the ship sees it: the world-space direction turned
\* back by the ship's heading, wrapped into (-PI, PI]
RelativeDir(dir, rot) ==
    IF dir = NaNDir THEN NaNDir
    ELSE LET a == dir - rot
         IN IF a > 4 THEN a - 8 ELSE IF a <= -4 THEN a + 8 ELSE a

\* C25 as stated: a call routed to the hull reduces exactly one armor segment,
\* whose index is one of 0..3 for every impact direction, and the segment is
\* the one the impact angle relative to the ship's heading selects.
C25_SegmentByHeading ==
    (d_pc # "ready" /\ can_damage(d_dmg.team, d_pre.team) /\ ~d_rnd.sail) =>
        /\ d_pc = "done"
        /\ LET i == armor_segment(RelativeDir(d_dir, d_rot))
               base == IF d_rnd.crit
                       THEN d_dmg.damage * (1 + d_dmg.critical_multiplier)
                       ELSE d_dmg.damage
           IN /\ i \in Segments
              /\ d_ship.armor =
                     [d_pre.armor EXCEPT ![i + 1] =
                         Max(@ - d_dmg.armor_damage * base, 0)]

----------------------------------------------------------------------------
(* Claims checked under SpecShips *)

----------------------------------------------------------------------------
(* Claims checked under Spec *)

\* The number of times id stands in seq
RECURSIVE Times(_, _)
Times(seq, id) ==
    IF seq = <<>> THEN 0
    ELSE (IF Head(seq) = id THEN 1 ELSE 0) + Times(Tail(seq), id)

C8_PairFilter ==
    /\ \A a \in CollideKinds, b \in CollideKinds :
         collides_with(a, b) = collides_with(b, a)
    /\ ~collides_with("Small", "Small")
    /\ \A p \in w_pairs :
         /\ collides_with(solid_kind(w_ent[p[1]]), solid_kind(w_ent[p[2]]))
         /\ w_ent[p[1]].parent # p[2]
         /\ w_ent[p[2]].parent # p[1]
    /\ \A e \in w_pairs \cup {<<p[2], p[1]>> : p \in w_pairs} \cup w_effects :
         w_ent[e[1]].kind = "projectile" =>
             /\ w_ent[e[1]].parent # e[2]
             /\ w_ent[e[2]].kind # "projectile"
    /\ \A e \in w_effects : e \in w_pairs \/ <<e[2], e[1]>> \in w_pairs

\* C8 witness: a projectile was admitted with a ship that did not fire it
\* and its contact effects were collected
C8_Witness ==
    \E e \in w_effects :
        /\ w_ent[e[1]].kind = "projectile"
        /\ w_ent[e[2]].kind = "ship"
        /\ w_ent[e[1]].parent # e[2]

\* C9: when Map::logic has returned, it returned no error, every id of to_die
\* that was in the World before the despawn loop was despawned exactly once,
\* every other id (queued but already gone, or not queued) was despawned
\* zero times, and the World lost the queued ids and nothing else.
C9_DespawnOnce ==
    w_pc = "cells" =>
        /\ ~w_error
        /\ \A i \in Ids :
             w_count[i] = IF i \in Range(w_to_die) /\ i \in w_before THEN 1
                          ELSE 0
        /\ w_world = w_before \ Range(w_to_die)

\* C9 witness: to_die held one id twice and one id that was gone already
C9_Witness ==
    /\ w_pc = "cells"
    /\ \E i \in Range(w_to_die) :
         Times(w_to_die, i) >= 2 /\ i \in w_before /\ w_count[i] = 1
    /\ \E j \in Range(w_to_die) : j \notin w_before

\* C10: while a call of Map::logic runs, World::despawn has not been called
\* and every entity that was in the World when the call began is in it.
C10_NoDespawnMidTick ==
    w_pc # "cells" =>
        /\ w_start \subseteq w_world
        /\ \A i \in Ids : w_count[i] = 0

\* C10 witness: the last pass is about to run, and to_die holds a projectile
\* of an earlier call whose Die effect fired in this one
C10_Witness ==
    /\ w_pc = "ttd"
    /\ \E e \in w_effects :
         e[1] \in w_start /\ e[1] \in Range(w_to_die) /\ e[1] \in w_world

\* C11: a ship the target movement pass found within epsilon of its first
\* waypoint has, when that pass ends, the waypoints it had without the first,
\* in their order (for [p1, p2]: [p2]); the marker of that first waypoint is
\* queued for the rest of the call and is out of the World when the call has
\* returned.
C11_WaypointReached ==
    \A sh \in w_reached :
        /\ w_premove[sh] # <<>>
        /\ w_pc = "ai" => w_way[sh] = Tail(w_premove[sh])
        /\ Head(w_premove[sh]) # 0 =>
              /\ w_pc # "cells" => Head(w_premove[sh]) \in Range(w_to_die)
              /\ w_pc = "cells" => Head(w_premove[sh]) \notin w_world

\* C11 witness: the player's ship had two waypoints with markers and reached
\* the first; the call has returned, the first marker went in its despawn
\* loop, the second waypoint and its marker are left
C11_Witness ==
    /\ w_pc = "cells"
    /\ WPlayer \in w_reached
    /\ Len(w_premove[WPlayer]) = 2
    /\ w_premove[WPlayer][1] \in w_before \ w_world
    /\ w_way[WPlayer] = <<w_premove[WPlayer][2]>>
    /\ w_premove[WPlayer][2] \in w_world

----------------------------------------------------------------------------
(* SpecAStar: the claims about AStarContext::solve *)

\* The cells a walk of 4-connected steps over cells that are not solid
\* reaches from the cells of S; F is the part of S the last round added
RECURSIVE Flood(_, _, _)
Flood(S, F, solid) ==
    LET N == (UNION {{<<x[1] - 1, x[2]>>, <<x[1] + 1, x[2]>>,
                      <<x[1], x[2] - 1>>, <<x[1], x[2] + 1>>} : x \in F}
              \cap Cells) \ (solid \cup S)
    IN IF N = {} THEN S ELSE Flood(S \cup N, N, solid)

GoalReachable == a_to \in Flood({a_from}, {a_from}, a_solid)

\* The cells the call gave a cost to
Discovered == {i \in Idxs : a_cost[i] < FarCost}

\* C13: a call without solid cells and without extra cost, from # to, ends
\* with a path of Manhattan(from, to) + 1 cells whose first cell is `to` and
\* whose last cell is `from`.
C13_ManhattanPath ==
    (a_pc \in {"done", "panic", "loop"} /\ a_solid = {} /\ a_from # a_to) =>
        /\ a_pc = "done"
        /\ Len(a_path) = Manhattan(a_from, a_to) + 1
        /\ a_path[1] = a_to
        /\ a_path[Len(a_path)] = a_from

\* C13 witness: a call from one corner to the opposite corner has returned
C13_Witness ==
    /\ a_pc = "done"
    /\ a_solid = {}
    /\ Manhattan(a_from, a_to) = 2 * (GridSize - 1)
    /\ Len(a_path) = 2 * GridSize - 1

\* C14 as stated: a call whose goal cannot be reached from `from` returns a
\* path that is not empty.
C14_BestEffortNonEmpty ==
    (a_pc = "done" /\ ~GoalReachable) => a_path # <<>>

\* C15: a call whose goal cannot be reached and that returns a path that is
\* not empty returns one whose first cell got a cost in the search, has the
\* lowest heuristic of all cells that did, at most that of `from`, and whose
\* last cell is `from`.
C15_BestEffortLowest ==
    (a_pc \in {"done", "panic", "loop"} /\ ~GoalReachable
        /\ (a_pc = "done" => a_path # <<>>)) =>
        /\ a_pc = "done"
        /\ map_to_idx(a_path[1]) \in Discovered
        /\ \A i \in Discovered :
             heuristic(a_path[1], a_to) <= heuristic(idx_to_map(i), a_to)
        /\ heuristic(a_path[1], a_to) <= heuristic(a_from, a_to)
        /\ a_path[Len(a_path)] = a_from

\* C15 witness: the goal could not be reached and the call returned a path
\* of three steps towards it
C15_Witness ==
    /\ a_pc = "done"
    /\ ~GoalReachable
    /\ Len(a_path) = 4
    /\ a_path[1] # a_to

\* The cost of the steps of a returned path, which is in reverse order
RECURSIVE PathCost(_)
PathCost(path) ==
    IF Len(path) < 2 THEN 0
    ELSE (IF path[1] = path[2] THEN 0 ELSE 1 + cost_fn(path[1]))
         + PathCost(Tail(path))

Returned == a_pc \in {"done", "panic", "loop"}

\* C29 as stated: a call whose goal can be reached returns a path from `to`
\* back to `from` whose cost is the cost the reference search finds.
C29_MinimalCost ==
    (Returned /\ a_least < NoPath) =>
        /\ a_pc = "done"
        /\ a_path # <<>>
        /\ a_path[1] = a_to
        /\ a_path[Len(a_path)] = a_from
        /\ PathCost(a_path) = a_least

\* C29: a call whose goal can be reached at a cost below 1e6 returns a path
\* from `to` back to `from` whose cost is the cost the reference search
\* finds; a goal no walk reaches below 1e6 is not reached: the call returns
\* an empty path or a path that does not begin at `to`.
C29_MinimalCostBelowFar ==
    Returned =>
        /\ a_pc = "done"
        /\ IF a_least < FarCost
           THEN /\ a_path # <<>>
                /\ a_path[1] = a_to
                /\ a_path[Len(a_path)] = a_from
                /\ PathCost(a_path) = a_least
           ELSE a_path = <<>> \/ a_path[1] # a_to

\* C29 witness: a call returned a path that goes round a cell of extra cost
\* 3 on the straight line, two steps longer and one cheaper
C29_Witness ==
    /\ a_pc = "done"
    /\ \E c \in Cells : cost_fn(c) = 3 /\ c \notin Range(a_path)
    /\ Len(a_path) = Manhattan(a_from, a_to) + 3
    /\ PathCost(a_path) = a_least

\* The cells of a path are 4-adjacent in turn, none is there twice, and
\* none but `from` is solid
ValidWalk(path) ==
    /\ path[Len(path)] = a_from
    /\ \A i \in 1..(Len(path) - 1) : Manhattan(path[i], path[i + 1]) = 1
    /\ \A i \in 1..Len(path), j \in 1..Len(path) :
         i # j => path[i] # path[j]
    /\ \A i \in 1..Len(path) : path[i] # a_from => path[i] \notin a_solid

\* C30 as stated: every path a call returns that is not empty is a valid
\* walk, for from = to as well.
C30_ValidWalk ==
    (Returned /\ a_path # <<>>) => ValidWalk(a_path)

\* C30: every path a call with from # to returns that is not empty is a
\* valid walk that ends at `from`; a call with from = to returns the two
\* cells <<from, from>>.
C30_ValidWalkOrTwice ==
    (Returned /\ a_path # <<>>) =>
        IF a_from # a_to THEN ValidWalk(a_path)
        ELSE a_path = <<a_from, a_from>>

\* C30 witness: a call returned a path that goes round a solid cell, and a
\* best-effort path was returned for a goal that is solid
C30_Witness ==
    /\ a_pc = "done"
    /\ a_path # <<>>
    /\ a_solid # {}
    /\ \/ a_path[1] = a_to /\ Len(a_path) = Manhattan(a_from, a_to) + 3
       \/ a_to \in a_solid /\ Len(a_path) >= 3

\* C31: every call, whatever its start, its goal, its solid cells and its
\* extra costs, comes to its end: once begun, the while loop empties the open
\* set or pops the goal, and the loop that follows came_from arrives at
\* `from`, so that the call returns (it neither runs on nor panics)
C31_SolveTerminates ==
    /\ [](a_pc # "loop" /\ a_pc # "panic")
    /\ (a_pc = "search") ~> (a_pc = "done")

\* C31 witness: the open set ran empty and the second loop followed
\* came_from over two cells back to `from`, on a map with a solid goal
C31_Witness ==
    /\ a_pc = "done"
    /\ a_open = {}
    /\ a_to \in a_solid
    /\ Len(a_path) = 3
    /\ a_path[3] = a_from

\* C32: what a call on a context that served earlier calls returns is what
\* a call with the same arguments on a new context of the same size can
\* return
C32_SameAsFresh ==
    (a_reused /\ a_pc \in {"done", "panic", "loop"}) =>
        [end |-> a_pc, path |-> a_path] \in a_fresh

\* C32 witness: a call on a context that had served an earlier call has
\* returned a path that leads round a solid cell to its goal
C32_Witness ==
    /\ a_reused
    /\ a_pc = "done"
    /\ Len(a_path) >= 3
    /\ a_path[1] = a_to
    /\ a_solid # {}

----------------------------------------------------------------------------
(* SpecEconomy: the claim about update_economy *)

\* The distance of two positive f32 in units of the last place of the smaller
f32_ulps(a, b) ==
    LET hi == IF f32_lt(a, b) THEN b ELSE a
        lo == IF f32_lt(a, b) THEN a ELSE b
    IN IF hi.e = lo.e THEN hi.m - lo.m
       ELSE IF hi.e = lo.e + 1 THEN 2 * hi.m - lo.m
       ELSE 2^24

\* A positive f32 in the normal range
f32_normal(x) == x.m >= 2^23 /\ x.m < 2^24 /\ x.e >= -149 /\ x.e <= 104

\* The exact product of two f32: (H * 2^24 + L) * 2^e with H of 24 bits
f32_exact_product(a, b) ==
    LET ah == a.m \div 4096
        al == a.m % 4096
        bh == b.m \div 4096
        bl == b.m % 4096
        mid == ah * bl + al * bh
        low == (mid % 4096) * 4096 + al * bl
        L == low % 2^24
        H == ah * bh + mid \div 4096 + low \div 2^24
    IN IF H >= 2^23 THEN [H |-> H, L |-> L, e |-> a.e + b.e]
       ELSE [H |-> 2 * H + L \div 2^23, L |-> (L % 2^23) * 2,
             e |-> a.e + b.e - 1]

\* The factor of the index the call drew
Factor == IF e_up THEN F1_25 ELSE F0_8

----------------------------------------------------------------------------
(* SpecLevel: the claim about compute_level *)

----------------------------------------------------------------------------
(* SpecItems: the claims about affixes and generate_weapon *)

\* The table row of the affix of the single apply call
AffixRow ==
    IF i_affix.who = "weapon"
    THEN (IF i_affix.part = "prefix" THEN WeaponPrefixes[i_affix.idx + 1]
          ELSE WeaponSuffixes[i_affix.idx + 1])
    ELSE (IF i_affix.part = "prefix" THEN OfficerPrefixes[i_affix.idx + 1]
          ELSE OfficerSuffixes[i_affix.idx + 1])

\* The targeted stat changed by `by`: multiplied for a weapon affix, added
\* to for an officer affix
ChangedBy(by) ==
    i_stats[AffixRow.stat] =
        IF i_affix.who = "weapon" THEN f32_times(i_base[AffixRow.stat], by)
        ELSE f32_plus(i_base[AffixRow.stat], by)

\* C18: applying a weapon or officer prefix or suffix of tier t with roll
\* f = 0 changes the targeted stat by exactly breakpoints[t], with f = 1 by
\* exactly breakpoints[t + 1], multiplicatively for a weapon affix and
\* additively for an officer affix, and changes no other stat; Weapon::stats
\* applies all prefixes, in order, before all suffixes.
C18_AffixBoundary ==
    /\ i_pc = "applied" =>
         /\ i_affix.f = f32_zero =>
                ChangedBy(AffixRow.breakpoints[i_affix.tier + 1])
         /\ i_affix.f = F1 =>
                ChangedBy(AffixRow.breakpoints[i_affix.tier + 2])
         /\ \A stat \in DOMAIN i_base :
                stat # AffixRow.stat => i_stats[stat] = i_base[stat]
    /\ i_pc = "stats" =>
         i_trace = [k \in 1..Len(i_item.prefixes) |-> <<"prefix", k>>]
                   \o [k \in 1..Len(i_item.suffixes) |-> <<"suffix", k>>]

\* C18 witness: an officer prefix whose tier runs from 0.1 to 0.3 was
\* applied with f = 1 and added 0.3
C18_Witness ==
    /\ i_pc = "applied"
    /\ i_affix = [who |-> "officer", part |-> "prefix", idx |-> 0,
                  tier |-> 0, f |-> F1]
    /\ i_stats.reload_speed = F0_3

\* C19: a generate_weapon call that draws no prefix and no suffix returns a
\* weapon of Rarity::Normal named "Cannon" with empty prefix and suffix
\* lists; in every call the lengths of the two lists are the drawn counts.
C19_NormalCannon ==
    i_pc \in {"generated", "stats"} =>
        /\ (i_draw.num_prefixes = 0 /\ i_draw.num_suffixes = 0) =>
               /\ i_item.rarity = "Normal"
               /\ i_item.name = "Cannon"
               /\ i_item.prefixes = <<>>
               /\ i_item.suffixes = <<>>
        /\ Len(i_item.prefixes) = i_draw.num_prefixes
        /\ Len(i_item.suffixes) = i_draw.num_suffixes

\* C19 witness: a call that drew no affix, and its weapon
C19_Witness ==
    /\ i_pc = "generated"
    /\ i_draw.num_prefixes = 0
    /\ i_draw.num_suffixes = 0
    /\ i_item.name = "Cannon"

----------------------------------------------------------------------------
(* SpecAI: the claim about want_attack *)

\* C20 as stated: want_attack is false in every state in which the AI of a
\* ship is Idle, a ship that left Attacking(e) because e no longer exists
\* or is no longer an enemy included.
C20_IdleNoAttack ==
    \A i \in n_world : n_ai[i].state = "Idle" => ~n_want[i]

----------------------------------------------------------------------------
(* SpecFire: the claims about the equipment pass *)

\* C21 as stated: whenever a projectile is spawned for a weapon, the weapon
\* sits in a non-inventory slot, its readiness is at least 1 and want_attack
\* of its ship is set at that moment, and the shot leaves readiness 0 and
\* time_to_fire None; whatever the player did to the intent and to the item
\* before.
C21_FiresOnlyWhenReady ==
    \A p \in f_shot :
        /\ p.slot = "weapon"
        /\ p.ready >= Full
        /\ p.want
        /\ f_pc = "death" => (f_ready = 0 /\ f_ttf = NoTime)

\* C27 as stated: a ship that death handling has made Neutral spawns no
\* projectile in a later call, whatever time_to_fire its weapon held.
C27_InactiveNeverFires == \A p \in f_shot : ~p.neutral

----------------------------------------------------------------------------
(* SpecHurt: the claims about the Hurt effect *)

\* A Hurt effect of this call has run to its end: h_pre, h_dmg and h_report
\* are those of the last one
Hit == h_hits > 0 /\ h_pc # "panic"

\* C23 as stated: a hit that reports damaged = false leaves the ship as it
\* was: its AI state is not redirected and none of its items is destroyed.
C23_SameTeamUntouched ==
    (Hit /\ ~h_report.damaged) =>
        /\ h_ss = h_pre.ss
        /\ h_ai = h_pre.ai
        /\ h_items = h_pre.items

\* C26 as stated: a Hurt effect never changes the hull, armor, sails, crew
\* or infirmary of a Neutral ship and destroys none of its items.
C26_NeutralInert ==
    (Hit /\ h_pre.ss.team = "Neutral") =>
        /\ h_ss = h_pre.ss
        /\ h_items = h_pre.items

\* C26 amended: a Neutral ship is unchanged by a projectile of team Neutral
\* only; a projectile of any other team damages it as it damages any ship:
\* the report says damaged, and with hull and sails left the hull, the
\* sails or an armor segment is lower than before.
C26_NeutralDamagedByOthers ==
    (Hit /\ h_pre.ss.team = "Neutral") =>
        IF h_dmg.team = "Neutral"
        THEN /\ ~h_report.damaged
             /\ h_ss = h_pre.ss
             /\ h_items = h_pre.items
        ELSE /\ h_report.damaged
             /\ (h_pre.ss.hull > 0 /\ h_pre.ss.sails > 0) =>
                    \/ h_ss.hull < h_pre.ss.hull
                    \/ h_ss.sails < h_pre.ss.sails
                    \/ \E i \in 1..4 : h_ss.armor[i] < h_pre.ss.armor[i]

\* C26 witness: a hit on a Neutral ship took hull off it and destroyed its
\* weapon
C26_Witness ==
    /\ Hit
    /\ h_pre.ss.team = "Neutral"
    /\ h_ss.hull < h_pre.ss.hull
    /\ h_pre.items[1] = "Weapon"
    /\ h_items[1] = "None"

\* The last Hurt effect turned the ship from active to inactive
Deactivated == Hit /\ is_active(h_pre.ss) /\ ~is_active(h_ss)

\* The parent after an award for a ship of the level of the ship that is hit
Awarded(parent) ==
    LET experience == parent.experience
                      + h_stats.exp_bonus * enemy_experience(h_ss.level)
    IN [present |-> TRUE, experience |-> experience,
        level |-> compute_level_from(1, experience)]

\* C28 as stated: the hit that turns the ship from active to inactive adds
\* exp_bonus * enemy_experience(level) to the experience of the projectile's
\* parent, whose level is then recomputed; every other hit awards nothing.
C28_AwardedOnce ==
    Hit => h_parent = IF Deactivated THEN Awarded(h_pre.parent)
                      ELSE h_pre.parent

\* C28 amended: the award is made when the parent still is in the World;
\* when it has been despawned the deactivation awards nothing to anyone.
C28_AwardedOnceIfPresent ==
    Hit => h_parent = IF Deactivated /\ h_pre.parent.present
                      THEN Awarded(h_pre.parent)
                      ELSE h_pre.parent

\* C28 witness: the second hit of a call on a ship the first one had
\* disabled, with the award of the first still the parent's experience
C28_Witness ==
    /\ Hit
    /\ h_hits = 2
    /\ ~is_active(h_pre.ss)
    /\ h_pre.ss.team # "Neutral"
    /\ h_report.damaged
    /\ h_parent.present
    /\ h_parent.experience = 1 + 3 * enemy_experience(2)
    /\ h_parent.level = 2

----------------------------------------------------------------------------
(* SpecPause: the claim about AIState::Pause *)

----------------------------------------------------------------------------
(* SpecContact: the claim about the contact effects *)

\* C22: the Hurt of a projectile is applied to a given ship at most once in
\* a call of Map::logic, however many of the five relaxation passes the pair
\* touches on, and at most once while the projectile exists, because its
\* Die effect despawns it at the end of the call.
C22_HurtOncePerContact ==
    \A p \in CPairs : c_tick[p] <= 1 /\ c_life[p] <= 1

\* C22 witness: a projectile touched both ships on all five passes of a
\* call, was applied once to each and is despawned
C22_Witness ==
    \E b \in CBalls :
        /\ c_pc = "collide"
        /\ b \notin c_world
        /\ \A v \in CShips :
              /\ b * 4 + v \in DOMAIN c_touch
              /\ c_touch[b * 4 + v] = Passes
              /\ c_life[b * 4 + v] = 1

----------------------------------------------------------------------------
(* SpecCells: the claim about the cell changes *)

\* The centres within CELL_RADIUS of the origin
Square ==
    ((0 - CELL_RADIUS)..CELL_RADIUS) \X ((0 - CELL_RADIUS)..CELL_RADIUS)

\* C33: when the cell changes of a call are done, Map::cells holds every
\* centre of [-CELL_RADIUS, CELL_RADIUS]^2 exactly once, a centre is new
\* exactly if the list held no cell there before; every entity whose
\* Position was in a cell out of the radius round the player's cell is in
\* to_die and the player's ship is not; player_pos is in the cell (0, 0).
C33_CellStreaming ==
    m_pc = "physics" =>
        /\ Len(m_cells) = (2 * CELL_RADIUS + 1) * (2 * CELL_RADIUS + 1)
        /\ Range(m_cells) = Square
        /\ \A c \in Square :
              c \in m_new <=>
                  <<c[1] + m_cell[1], c[2] + m_cell[2]>> \notin m_before
        /\ \A id \in m_world :
              ~in_radius(world_to_cell(m_pos[id]), <<0, 0>>) =>
                  id \in m_to_die
        /\ m_player \notin m_to_die
        /\ world_to_cell(m_player_pos) = <<0, 0>>

\* C33 witness: the player went over to another ship and sailed on; the ship
\* left behind is out of the radius and in to_die, and five cells are new
C33_Witness ==
    /\ m_pc = "physics"
    /\ m_player # 1
    /\ 1 \in m_to_die
    /\ Cardinality(m_new) = 2 * CELL_RADIUS + 1

----------------------------------------------------------------------------
(* SpecExpiry: the claim about TimeToDie *)

\* C34: no entity with a TimeToDie exists any more once a call of Map::logic
\* has run at a time above its deadline; so a projectile is gone when the
\* time has advanced by more than a second since its spawn and a muzzle
\* flash when it has advanced by more than a fifth of a second, and neither
\* is despawned by the time to die pass before.
C34_ExpiresOnTime ==
    /\ \A id \in t_world :
          /\ ~(state_time(t_last) > t_ent[id].time_to_die)
          /\ t_ent[id].kind = "projectile" =>
                 t_last - t_ent[id].born <= TicksPerSecond
          /\ t_ent[id].kind = "flash" =>
                 t_last - t_ent[id].born <= TicksPerSecond \div 5
    /\ \A g \in t_gone :
          g.at - g.born = (IF g.kind = "projectile" THEN TicksPerSecond
                           ELSE TicksPerSecond \div 5) + 1

\* C34 witness: the projectile and the muzzle flash of a shot have both been
\* despawned by the time to die pass, the game having been paused meanwhile
C34_Witness ==
    /\ t_paused
    /\ \E g \in t_gone : g.kind = "projectile"
    /\ \E g \in t_gone : g.kind = "flash"
    /\ t_world # {}

----------------------------------------------------------------------------
(* C35: a hull of 0 stays 0 *)

\* C35: in every step of Game::logic (trade screen, switch ships, recruit,
\* finish_trade, repair and healing pass, Hurt effects, death pass) a ship
\* whose hull is 0 keeps a hull of 0, so it is not active afterwards either
C35_SunkStaysSunk ==
    [][\A i \in Ships :
         s_ships[i].hull = 0 =>
           s_ships'[i].hull = 0 /\ ~is_active(s_ships'[i])]_vars

\* The ship state simulation pass has just run over a sunk ship that lacks
\* hull and that the player, with a crew aboard, is docked with, the trade
\* screen open
C35_Witness ==
    /\ s_pc = "contact"
    /\ s_hits = 0
    /\ s_screen = "open"
    /\ s_dock # 0
    /\ s_dock # s_player
    /\ s_ships[s_dock].hull = 0
    /\ SStats[s_dock].hull > 0
    /\ is_active(s_ships[s_player])

----------------------------------------------------------------------------
(* SpecRarity: the rarity of weapons generated one after the other *)

SpecRarity == InitItems /\ [][IRarityNext]_vars

\* The weapon of this call and the weapon of the call before
TwoWeapons == i_pc = "generated" /\ i_prev # NoPrev

\* C36 as stated: two generated weapons with the same total number of
\* affixes (prefixes + suffixes) have the same rarity tier.
C36_RarityByTotal ==
    (/\ TwoWeapons
     /\ i_prev.num_prefixes + i_prev.num_suffixes
          = i_draw.num_prefixes + i_draw.num_suffixes)
      => i_prev.rarity = i_item.rarity

\* C36 as the code has it: the rarity is a function of the pair (number of
\* prefixes, number of suffixes): Normal with no affix, Magic with at most
\* one prefix and at most one suffix, Rare otherwise; so two weapons with
\* the same total have the same rarity unless the total is 2.
C36_RarityByCounts ==
    /\ i_pc = "generated" =>
         i_item.rarity =
           IF i_draw.num_prefixes = 0 /\ i_draw.num_suffixes = 0 THEN "Normal"
           ELSE IF i_draw.num_prefixes <= 1 /\ i_draw.num_suffixes <= 1
           THEN "Magic" ELSE "Rare"
    /\ (/\ TwoWeapons
        /\ i_prev.num_prefixes = i_draw.num_prefixes
        /\ i_prev.num_suffixes = i_draw.num_suffixes)
         => i_prev.rarity = i_item.rarity
    /\ (/\ TwoWeapons
        /\ i_prev.num_prefixes + i_prev.num_suffixes
             = i_draw.num_prefixes + i_draw.num_suffixes
        /\ i_draw.num_prefixes + i_draw.num_suffixes # 2)
         => i_prev.rarity = i_item.rarity

\* C36 witness: a weapon with one prefix and one suffix, Magic, and after it
\* a weapon with two prefixes and no suffix, Rare
C36_Witness ==
    /\ TwoWeapons
    /\ i_prev = [num_prefixes |-> 1, num_suffixes |-> 1, rarity |-> "Magic"]
    /\ i_draw.num_prefixes = 2
    /\ i_draw.num_suffixes = 0
    /\ Len(i_item.prefixes) = 2
    /\ i_item.rarity = "Rare"

----------------------------------------------------------------------------
(* SpecHud: the claim about the repair boosts *)

InitHud == UIdle /\ DIdle /\ SIdle /\ WIdle /\ AIdle /\ EIdle /\ LIdle /\ IIdle /\ NIdle /\ FIdle /\ HIdle /\ PIdle /\ CIdle /\ MIdle /\ TIdle /\ RIdle /\ KIdle /\ BIdle

SpecHud == InitHud /\ [][UNext]_vars

\* C37: after every HUD::logic call the player's repair_boost has at most 2
\* entries, all distinct and each in 0..6; its entries are the buttons that
\* are on, in the order they were switched on; every button the call
\* switched off was switched on before each of them; and the repair_boost
\* of every ship, which the repair pass multiplies by, has at most 2 entries
\* in 0..6 in every state.
C37_RepairBoostCap ==
    /\ \A s \in HudShips :
         /\ Len(u_boost[s]) <= 2
         /\ \A k \in 1..Len(u_boost[s]) : u_boost[s][k] \in 0..6
    /\ u_pc = "logic" =>
         LET b == u_boost[u_player]
         IN /\ \A j, k \in 1..Len(b) : j # k => b[j] # b[k]
            /\ {b[k] : k \in 1..Len(b)} = {i \in Buttons : u_on[i]}
            /\ \A j, k \in 1..Len(b) :
                 j < k => u_stamp[b[j]] < u_stamp[b[k]]
            /\ \A d \in u_dropped, k \in 1..Len(b) :
                 /\ ~u_on[d]
                 /\ u_stamp[d] < u_stamp[b[k]]
            /\ u_dropped # {} => Len(b) = 2

\* C37 witness: buttons 3, 6 and 0 were switched on in this order before
\* one HUD::logic call, which switched 3 off and left the boosts 6 and 0
C37_Witness ==
    /\ u_pc = "logic"
    /\ u_dropped = {3}
    /\ u_boost[u_player] = <<6, 0>>
    /\ u_stamp[3] < u_stamp[6]
    /\ ~u_on[3]

----------------------------------------------------------------------------
(* SpecLoop: the claim about the cap on steps without a render *)

InitLoop == RIdle /\ DIdle /\ SIdle /\ WIdle /\ AIdle /\ EIdle /\ LIdle /\ IIdle /\ NIdle /\ FIdle /\ HIdle /\ PIdle /\ CIdle /\ MIdle /\ TIdle /\ UIdle /\ KIdle /\ BIdle

SpecLoop == InitLoop /\ [][RNext]_vars

\* C38: at most 11 Game::logic calls run between two consecutive renders;
\* a timer tick handled while logics_without_draw exceeds 10 runs no logic
\* and leaves state.tick and the counter as they are; a render sets the
\* counter to 0.
C38_StepCap ==
    /\ [](r_logics <= 11 /\ r_logics <= r_count /\ r_count <= 11)
    /\ [][(r_pc = "wait" /\ r_pc' = "top" /\ r_count > 10)
            => /\ r_logics' = r_logics
               /\ r_tick' = r_tick
               /\ r_count' = r_count]_vars
    /\ [][(r_pc = "top" /\ r_pc' = "wait" /\ r_draw /\ r_queue = 0)
            => (r_count' = 0 /\ r_logics' = 0 /\ ~r_draw')]_vars

\* C38 witness: 11 Game::logic calls ran without a render, 11 ticks passed,
\* and the timer tick after them was skipped
C38_Witness ==
    /\ r_logics = 11
    /\ r_count = 11
    /\ r_tick = 11
    /\ r_skipped
    /\ r_draw
    /\ r_pc = "top"

----------------------------------------------------------------------------
(* SpecDock: the claim about the dock request *)

InitDock == KIdle /\ DIdle /\ SIdle /\ WIdle /\ AIdle /\ EIdle /\ LIdle /\ IIdle /\ NIdle /\ FIdle /\ HIdle /\ PIdle /\ CIdle /\ MIdle /\ TIdle /\ UIdle /\ RIdle /\ BIdle

SpecDock == InitDock /\ [][KNext]_vars

\* The last Map::logic call was given a Dock order that passes the checks
DockGranted ==
    /\ k_req.alive
    /\ k_req.target \notin {0, k_req.player}
    /\ dock_with(k_req.team[k_req.target], k_req.team[k_req.player])
    /\ k_req.dist < 2 + DockSize[k_req.target] + DockSize[k_req.player]

\* C39: after a Map::logic call with a Dock order, dock_entity is the
\* targeted ship exactly when the player is alive, the target's team (as
\* it is when the order is handled) passes dock_with against the player's
\* and the distance is below 2 + both sizes,
\* and then the player has no waypoints and the markers of its waypoints
\* are in to_die; a living player whose order fails a check has no
\* dock_entity; a dead player's dock_entity is as it was; and in every
\* state the dock_entity is no enemy of the player.
C39_DockRequest ==
    /\ (k_last = "input" /\ k_req.want_dock /\ k_req.target # k_req.player) =>
         /\ k_req.alive =>
              k_dock = IF DockGranted THEN k_req.target ELSE 0
         /\ ~k_req.alive => k_dock = k_req.dock
         /\ DockGranted =>
              /\ k_way[k_player] = <<>>
              /\ \A k \in 1..Len(k_req.way) :
                   k_req.way[k] # 0 =>
                     \E j \in 1..Len(k_to_die) : k_to_die[j] = k_req.way[k]
              /\ k_req.marker # 0 =>
                   \E j \in 1..Len(k_to_die) : k_to_die[j] = k_req.marker
    /\ k_dock # 0 => ~is_enemy(k_team[k_dock], k_team[k_player])

\* C39 witness: the player, with a waypoint and a Move order in the same
\* call, asked to dock with the ship of its team at distance 3 and is
\* docked with it
C39_Witness ==
    /\ k_last = "input"
    /\ k_req.want_dock
    /\ k_req.alive
    /\ Len(k_req.way) = 1
    /\ k_req.marker # 0
    /\ k_req.target = 2
    /\ k_dock = 2
    /\ k_team[2] = "English"
    /\ k_team[k_player] = "English"
    /\ Len(k_to_die) = 2

----------------------------------------------------------------------------
(* SpecTrade: the claim about Map::money *)

\* The player reaches the trade screen with the money earlier trades and
\* recruits have left
BInit ==
    /\ b_money \in StartMoney
    /\ b_team = "English"
    /\ b_slots = [idx \in {0, 1} |->
                    [i \in TradeSlots |->
                       IF idx = 1 THEN (IF i = 1 THEN 1 ELSE 0) ELSE i + 1]]
    /\ b_dragged = NoDrag
    /\ b_down = FALSE
    /\ b_grab_attempted = FALSE
    /\ b_paid = 0
    /\ b_ev = "none"
    /\ b_msg = FALSE

InitTrade == BInit /\ DIdle /\ SIdle /\ WIdle /\ AIdle /\ EIdle /\ LIdle /\ IIdle /\ NIdle /\ FIdle /\ HIdle /\ PIdle /\ CIdle /\ MIdle /\ TIdle /\ UIdle /\ RIdle /\ KIdle

SpecTrade == InitTrade /\ [][BNext]_vars

\* The dragged item is back in the slot it was taken from and no other slot
\* has changed
TradeReturned ==
    /\ b_dragged # NoDrag
    /\ b_dragged' = NoDrag
    /\ b_slots' = [b_slots EXCEPT ![b_dragged.idx][b_dragged.i] = b_dragged.item]

\* C40 as stated: Map.money is never negative; a refused grab leaves money,
\* slots and the dragged item as they were, with the message pushed for this
\* press of the button; a refused drop pushes the message and leaves money
\* and slots as they were before the item was grabbed; a refused recruit
\* (with no item in hand) pushes the message and leaves money and slots
\* unchanged; and an item
\* that goes back to the partner (in a call that recruits nobody) is
\* refunded exactly what was paid for it.
C40_TradeMoney ==
    /\ [](b_money >= 0)
    /\ [][b_ev' = "grab_refused"
            => /\ b_money' = b_money
               /\ b_slots' = b_slots
               /\ b_dragged' = b_dragged
               /\ b_msg' \/ b_grab_attempted]_vars
    /\ [][b_ev' = "drop_refused"
            => /\ b_msg'
               /\ TradeReturned
               /\ b_money' = b_money + b_paid]_vars
    /\ [][(b_ev' = "recruit_refused" /\ b_dragged = NoDrag)
            => /\ b_msg'
               /\ b_money' = b_money
               /\ b_slots' = b_slots]_vars
    /\ [][(TradeReturned /\ b_dragged.idx = 0 /\ b_ev' # "recruit")
            => b_money' = b_money + b_paid]_vars

====
